---- MODULE Spec2Model ----
(***************************************************************************)
(* ArxivScribe: the upstream client (arxivscribe/arxiv/fetcher.py) and the *)
(* per-destination digest cycle (arxivscribe/bot/digest_manager.py) over   *)
(* the storage layer (arxivscribe/storage/db.py).                          *)
(*                                                                         *)
(* Coroutines are modelled as tasks whose steps run from one suspension    *)
(* point (an await that can yield to the event loop) to the next.          *)
(***************************************************************************)
EXTENDS Integers, Sequences, FiniteSets, TLC

VARIABLES
    now,        \* event-loop clock, in seconds (asyncio loop.time())
    lastReq,    \* ArxivFetcher._last_request_time (NoTime = None)
    upstream,   \* what the arXiv API holds: query -> sequence of entries
    env,        \* the run's environment: the outcomes the network can produce,
                \* how long a response takes at most, the since arguments
                \* callers pass, and where the clock stops
    ft,         \* the tasks that call the shared ArxivFetcher instance
    utcnow,     \* wall clock (datetime.utcnow()), in days
    watermark,  \* metadata row 'last_fetch_time' (NoTime: no row)
    subs,       \* subscriptions table: destination -> set of keywords
    posted,     \* posting records: set of <<item id, destination>>
    papersTbl,  \* ids of the rows of the papers table
    sent,       \* messages delivered: <<item id, destination>> -> how many
    dt,         \* the running digest cycles (run_digest_for_channel calls)
    wt,         \* the running POST /api/fetch call
    cyclesLeft, \* cycles that may still be started
    lastRun,    \* per destination, the cycle that completed last
    rows,       \* papers table: item id -> the attributes of its row
    votes,      \* votes table: <<item id, voter, kind>> -> how many rows
    live,       \* the reactions that stand: added and not removed since
    webCast,    \* per item, the up and down votes POST /api/vote applied
    opsLeft,    \* storage calls that may still be made
    lastSub,    \* the subscribe or unsubscribe request handled last
    st,         \* the store loops of the running fetch requests
    summarizer, \* the Summarizer the batches use ("none": None)
    bs,         \* the running batch_summarize calls
    digestCfg,  \* digest_config table: config id -> keywords and last_sent
    ms,         \* where the DigestScheduler loop is in _send_digest
    mailed,     \* per config, the digests the mailer sent and failed to send
    call,       \* a call of a function of its arguments alone, and its result
    sch         \* the bot's Scheduler, its digest loops and the wall clock

fvars == <<now, lastReq, env, ft>>

\* What the votes and the direct storage calls work on.
\* The email digests.
\* What the functions without state work on.
qvars == <<call, sch>>

zvars == <<digestCfg, ms, mailed, qvars>>

yvars == <<votes, live, webCast, opsLeft, lastSub, st, summarizer, bs, zvars>>

xvars == <<rows, yvars>>

dvars == <<utcnow, watermark, subs, posted, papersTbl, sent, dt, wt, cyclesLeft, lastRun,
           xvars>>

vars == <<fvars, upstream, dvars>>

\* What a batch_summarize call leaves alone besides its own position.
dvars_but_bs ==
    <<utcnow, watermark, subs, posted, papersTbl, sent, dt, wt, cyclesLeft, lastRun, rows,
      votes, live, webCast, lastSub, st, summarizer, zvars>>

-----------------------------------------------------------------------------
(* Bounds of the model *)

RateHorizon == 7        \* where the clock stops when two tasks share the fetcher
RetryHorizon == 30      \* where it stops when one task runs the retry loop
MaxDelay == 1           \* seconds until the response of an attempt arrives
MaxCalls == 2           \* fetcher calls one task makes
MaxCats == 2            \* length of the category list of one fetch_papers call
MaxEntries == 2         \* entries in one upstream response
MaxCycles == 2          \* digest cycles started in one run
MaxDay == 2             \* where the wall clock stops

-----------------------------------------------------------------------------
(* Program constants *)

RateLimitSeconds == 3   \* ArxivFetcher.__init__(rate_limit_seconds=3.0)
Retries == 3            \* _request_with_retry(retries=3)
DayUnits == 1           \* timedelta(days=1); dates are counted in days
NoTime == -1            \* None for a time or a date
BadDate == -2           \* a published string datetime.fromisoformat rejects

Tasks == {"t1", "t2"}
Cycles == {"c1", "c2"}
Dests == {"chA", "chB"}
Keywords == {"attention", "gan"}
Categories == {"cs.LG", "cs.AI"}
Queries == Categories \cup {"all", "id"}
Ids == {1, 2}
Dates == 0 .. 2

\* The ways one HTTP attempt can end (fetcher.py:36-53): a status, a timeout,
\* an aiohttp.ClientError, or an exception that neither handler catches
\* (e.g. a decoding error raised by response.text()).
Outcomes == {"s200", "s503", "s429", "s500", "s404", "timeout", "clienterr", "exc"}

\* A parsed entry: its id and its published date (NoTime: missing, BadDate:
\* unparsable).
Paper(i, p) == [id |-> i, pub |-> p]
Papers == {Paper(i, p) : i \in Ids, p \in Dates \cup {NoTime, BadDate}}

RECURSIVE SeqsUpTo(_, _)
SeqsUpTo(S, n) ==
    IF n = 0 THEN {<<>>}
    ELSE LET shorter == SeqsUpTo(S, n - 1)
         IN  shorter \cup {Append(s, x) : s \in {q \in shorter : Len(q) = n - 1}, x \in S}

-----------------------------------------------------------------------------
(* ArxivFetcher *)

\* A mutation: an entry whose published does not parse is dropped.
KeepByDateParsedOnly(paper, since) ==
    \/ paper.pub = NoTime
    \/ paper.pub # BadDate /\ ~(paper.pub < since)

\* published -> datetime, fetcher.py:82-90: a missing published is not
\* compared, an unparsable one raises ValueError and the entry is kept.
KeepByDate(paper, since) ==
    \/ paper.pub = NoTime
    \/ paper.pub = BadDate
    \/ ~(paper.pub < since)

\* The body of `for paper in papers` (fetcher.py:79-92) over one category's
\* parsed entries, from the accumulated [all, seen].
RECURSIVE MergeCategoryNoSeen(_, _, _)
MergeCategoryNoSeen(papers, acc, since) ==
    IF papers = <<>> THEN acc
    ELSE LET paper == Head(papers)
             next == IF KeepByDate(paper, since)
                     THEN [all |-> Append(acc.all, paper),
                           seen |-> acc.seen \cup {paper.id}]
                     ELSE acc
         IN  MergeCategoryNoSeen(Tail(papers), next, since)

RECURSIVE MergeCategory(_, _, _)
MergeCategory(papers, acc, since) ==
    IF papers = <<>> THEN acc
    ELSE LET paper == Head(papers)
             next == IF paper.id \notin acc.seen /\ KeepByDate(paper, since)
                     THEN [all |-> Append(acc.all, paper),
                           seen |-> acc.seen \cup {paper.id}]
                     ELSE acc
         IN  MergeCategory(Tail(papers), next, since)

\* Backoff waits of _request_with_retry (fetcher.py:41, 49, 53).
Backoff503(attempt) == 2 ^ (attempt + 2)
BackoffError(attempt) == 2 ^ attempt

IdleTask(calls) ==
    [pc |-> "idle", kind |-> "none", callsLeft |-> calls,
     cats |-> <<>>, since |-> 0, all_papers |-> <<>>, seen_ids |-> {},
     attempt |-> 0, wake |-> 0, rret |-> "none", result |-> <<>>,
     outcomes |-> <<>>, waited |-> FALSE, catLog |-> <<>>, stream |-> <<>>,
     reqStart |-> NoTime, sinceArg |-> 0]

\* session.get is entered: the request is on the wire (fetcher.py:30, 37).
\* _rate_limit's last statement and the start of the request run without a
\* suspension point between them.
IssueRequest(t) ==
    /\ lastReq' = now
    /\ ft' = [ft EXCEPT ![t].pc = "inflight", ![t].wake = 0, ![t].reqStart = now]

RateLimitNoWait(t) ==
    /\ ft[t].pc = "rate"
    /\ IssueRequest(t)
    /\ UNCHANGED <<now, upstream, env, dvars>>

\* _rate_limit (fetcher.py:24-30), up to its await or, without one, through
\* the request's start.
RateLimit(t) ==
    /\ ft[t].pc = "rate"
    /\ IF lastReq # NoTime /\ now - lastReq < RateLimitSeconds
       THEN /\ ft' = [ft EXCEPT ![t].pc = "rate_sleep",
                                ![t].wake = now + (RateLimitSeconds - (now - lastReq))]
            /\ UNCHANGED lastReq
       ELSE IssueRequest(t)
    /\ UNCHANGED <<now, upstream, env, dvars>>

\* asyncio.sleep in _rate_limit returns (fetcher.py:29-30).
RateWake(t) ==
    /\ ft[t].pc = "rate_sleep"
    /\ now >= ft[t].wake
    /\ IssueRequest(t)
    /\ UNCHANGED <<now, upstream, env, dvars>>

\* _request_with_retry returns r ("body" or "none") or raises ("raise").
ReturnRequest(f, r) == [f EXCEPT !.pc = "returned", !.rret = r, !.wake = 0]

NextAttemptOneMore(f) ==
    IF f.attempt + 1 <= Retries
    THEN [f EXCEPT !.pc = "rate", !.attempt = f.attempt + 1, !.wake = 0]
    ELSE ReturnRequest(f, "none")

\* The end of one loop iteration of _request_with_retry (fetcher.py:34, 54).
NextAttempt(f) ==
    IF f.attempt + 1 < Retries
    THEN [f EXCEPT !.pc = "rate", !.attempt = f.attempt + 1, !.wake = 0]
    ELSE ReturnRequest(f, "none")

AfterOutcomeRetryAll(f, o) ==
    CASE o = "s200" -> ReturnRequest(f, "body")
      [] o \in {"s503", "s429", "s500", "s404"} ->
            [f EXCEPT !.pc = "backoff", !.waited = TRUE,
                      !.wake = now + Backoff503(f.attempt)]
      [] o \in {"timeout", "clienterr"} ->
            [f EXCEPT !.pc = "backoff", !.waited = TRUE,
                      !.wake = now + BackoffError(f.attempt)]
      [] OTHER -> ReturnRequest(f, "raise")

\* What follows the response of one attempt (fetcher.py:38-53).
AfterOutcome(f, o) ==
    CASE o = "s200" -> ReturnRequest(f, "body")
      [] o = "s503" -> [f EXCEPT !.pc = "backoff", !.waited = TRUE,
                                 !.wake = now + Backoff503(f.attempt)]
      [] o \in {"s429", "s500", "s404"} -> ReturnRequest(f, "none")
      [] o = "timeout" -> [f EXCEPT !.pc = "backoff", !.waited = TRUE,
                                    !.wake = now + BackoffError(f.attempt)]
      [] o = "clienterr" ->
            IF f.attempt < Retries - 1
            THEN [f EXCEPT !.pc = "backoff", !.waited = TRUE,
                           !.wake = now + BackoffError(f.attempt)]
            ELSE NextAttempt(f)
      [] OTHER -> ReturnRequest(f, "raise")

\* The response of the attempt in flight arrives, or the attempt fails.
Response(t, o) ==
    /\ ft[t].pc = "inflight"
    /\ o \in env.outcomes
    /\ ft' = [ft EXCEPT ![t] =
                AfterOutcome([ft[t] EXCEPT !.outcomes = Append(ft[t].outcomes, o),
                                           !.waited = FALSE], o)]
    /\ UNCHANGED <<now, lastReq, upstream, env, dvars>>

\* asyncio.sleep of the backoff returns (fetcher.py:43, 49, 53).
BackoffWake(t) ==
    /\ ft[t].pc = "backoff"
    /\ now >= ft[t].wake
    /\ ft' = [ft EXCEPT ![t] = NextAttempt(ft[t])]
    /\ UNCHANGED <<now, lastReq, upstream, env, dvars>>

\* parser.parse_response of a body: the entries the API holds for the query.
ParsedBody(q) == upstream[q]

\* A new _request_with_retry call starts (fetcher.py:32-34).
StartRequest(f) ==
    [f EXCEPT !.pc = "rate", !.attempt = 0, !.rret = "none",
              !.outcomes = <<>>, !.waited = FALSE]

CategoryDoneNoCatch(f) ==
    LET category == Head(f.cats)
        papers == IF f.rret = "body" THEN ParsedBody(category) ELSE <<>>
        acc == MergeCategory(papers, [all |-> f.all_papers, seen |-> f.seen_ids], f.since)
        g == [f EXCEPT !.all_papers = acc.all, !.seen_ids = acc.seen,
                       !.cats = Tail(f.cats),
                       !.catLog = Append(f.catLog,
                                         <<category, IF f.rret = "body" THEN "ok" ELSE "empty">>),
                       !.stream = f.stream \o papers]
    IN  IF f.rret = "raise"
        THEN [f EXCEPT !.pc = "raised", !.catLog = Append(f.catLog, <<category, "raised">>)]
        ELSE IF Tail(f.cats) = <<>>
        THEN [g EXCEPT !.pc = "done", !.result = acc.all, !.attempt = 0,
                       !.rret = "none", !.outcomes = <<>>, !.waited = FALSE]
        ELSE StartRequest(g)

\* fetch_papers after _fetch_category(category) has returned or raised
\* (fetcher.py:76-98): merge, or log the exception, and go on with the next
\* category; after the last one return all_papers.
CategoryDone(f) ==
    LET category == Head(f.cats)
        papers == IF f.rret = "body" THEN ParsedBody(category) ELSE <<>>
        acc == MergeCategory(papers, [all |-> f.all_papers, seen |-> f.seen_ids], f.since)
        how == IF f.rret = "raise" THEN "raised"
               ELSE IF f.rret = "body" THEN "ok" ELSE "empty"
        g == [f EXCEPT !.all_papers = acc.all, !.seen_ids = acc.seen,
                       !.cats = Tail(f.cats),
                       !.catLog = Append(f.catLog, <<category, how>>),
                       !.stream = f.stream \o papers]
    IN  IF Tail(f.cats) = <<>>
        THEN [g EXCEPT !.pc = "done", !.result = acc.all, !.attempt = 0,
                       !.rret = "none", !.outcomes = <<>>, !.waited = FALSE]
        ELSE StartRequest(g)

\* search_papers (fetcher.py:143-150) and fetch_paper_by_id (fetcher.py:124-132)
\* after _request_with_retry has returned or raised.
SingleDone(f) ==
    LET papers == IF f.rret = "body" THEN ParsedBody(f.kind) ELSE <<>>
    IN  [f EXCEPT !.pc = "done", !.attempt = 0, !.rret = "none",
                  !.outcomes = <<>>, !.waited = FALSE,
                  !.result = IF f.kind = "id" /\ papers # <<>>
                             THEN <<Head(papers)>> ELSE papers]

\* The caller of _request_with_retry resumes.
Continue(t) ==
    /\ ft[t].pc = "returned"
    /\ ft' = [ft EXCEPT ![t] = IF ft[t].kind = "fetch_papers"
                               THEN CategoryDone(ft[t])
                               ELSE SingleDone(ft[t])]
    /\ UNCHANGED <<now, lastReq, upstream, env, dvars>>

\* fetch_papers(categories, since) is called (fetcher.py:56-76).
CallFetchPapers(t, categories, since) ==
    /\ ft[t].pc \in {"idle", "done"}
    /\ ft[t].callsLeft > 0
    /\ LET f == [ft[t] EXCEPT !.kind = "fetch_papers", !.callsLeft = ft[t].callsLeft - 1,
                              !.cats = categories, !.sinceArg = since,
                              !.since = IF since = NoTime THEN utcnow - DayUnits
                                                          ELSE since,
                              !.all_papers = <<>>, !.seen_ids = {},
                              !.catLog = <<>>, !.stream = <<>>, !.result = <<>>]
       IN  ft' = [ft EXCEPT ![t] = IF categories = <<>>
                                   THEN [f EXCEPT !.pc = "done"]
                                   ELSE StartRequest(f)]
    /\ UNCHANGED <<now, lastReq, upstream, env, dvars>>

\* search_papers or fetch_paper_by_id is called (fetcher.py:121-126, 134-145).
CallSingle(t, kind) ==
    /\ ft[t].pc \in {"idle", "done"}
    /\ ft[t].callsLeft > 0
    /\ ft' = [ft EXCEPT ![t] =
                StartRequest([ft[t] EXCEPT !.kind = kind, !.result = <<>>,
                                           !.callsLeft = ft[t].callsLeft - 1])]
    /\ UNCHANGED <<now, lastReq, upstream, env, dvars>>

Waiting(f) ==
    \/ f.pc \in {"idle", "done"}
    \/ f.pc = "inflight"
    \/ f.pc \in {"rate_sleep", "backoff"} /\ now < f.wake

\* Time passes while every task is suspended.
Tick ==
    /\ now < env.horizon
    /\ \A t \in Tasks : Waiting(ft[t])
    /\ \A t \in Tasks : ft[t].pc = "inflight" => now - ft[t].reqStart < env.delay
    /\ \E t \in Tasks : ft[t].pc \in {"inflight", "rate_sleep", "backoff"}
    /\ now' = now + 1
    /\ UNCHANGED <<lastReq, upstream, env, ft, dvars>>

CatLists == SeqsUpTo(Categories, MaxCats)

FetcherNext ==
    \/ \E t \in Tasks : \E categories \in CatLists : \E since \in env.sinces :
           CallFetchPapers(t, categories, since)
    \/ \E t \in Tasks : \E kind \in {"all", "id"} : CallSingle(t, kind)
    \/ \E t \in Tasks : RateLimit(t)
    \/ \E t \in Tasks : RateWake(t)
    \/ \E t \in Tasks : \E o \in Outcomes : Response(t, o)
    \/ \E t \in Tasks : BackoffWake(t)
    \/ \E t \in Tasks : Continue(t)
    \/ Tick

-----------------------------------------------------------------------------
(* DigestManager, the web fetch route and the tables they use *)

IdsOf(s) == {s[i].id : i \in 1 .. Len(s)}

WebDest == "web"        \* the web dashboard's subscriptions: guild 0, channel 0

\* self.categories / _categories, in request order.
DigestCategories == <<"cs.LG", "cs.AI">>

\* The words of the searchable text of an item (title, abstract, summary and
\* category tags, normalised).
TextOf(id) == IF id = 1 THEN {"attention"} ELSE {"attention", "gan"}

\* KeywordFilter.matches_keyword with fuzzy=True: the keyword occurs in the
\* text between word boundaries.
MatchesKeyword(words, keyword) == keyword \in words

PaperMatchesKeywords(paper, keywords) ==
    {keyword \in keywords : MatchesKeyword(TextOf(paper.id), keyword)}

RECURSIVE FilterPapersByKeywords(_, _)
FilterPapersByKeywords(papers, keywords) ==
    IF papers = <<>> THEN <<>>
    ELSE LET matched == PaperMatchesKeywords(Head(papers), keywords)
         IN  (IF matched # {} THEN <<[paper |-> Head(papers), matched |-> matched]>>
              ELSE <<>>)
             \o FilterPapersByKeywords(Tail(papers), keywords)

\* fetch_papers as one call: per category either the parsed response is
\* merged ("ok") or the category contributes nothing (no body, or an
\* exception caught at fetcher.py:95).
RECURSIVE FetchAll(_, _, _, _)
FetchAll(categories, how, acc, since) ==
    IF categories = <<>> THEN acc.all
    ELSE LET category == Head(categories)
             papers == IF how[category] = "ok" THEN ParsedBody(category) ELSE <<>>
         IN  FetchAll(Tail(categories), how, MergeCategory(papers, acc, since), since)

FetchHows == [Categories -> {"ok", "failed"}]

\* get_last_fetch_time: the stored row, else one day before now.
GetLastFetchTime == IF watermark # NoTime THEN watermark ELSE utcnow - DayUnits

\* The window start a cycle for destination ch is given: the call takes no
\* destination (digest_manager.py:96).
FetchWindow(ch) == GetLastFetchTime

\* A row of the papers table: the summary and matched_keywords columns and
\* the score (DEFAULT 0); the other columns come from the feed entry alone.
NewRow(summary, matched) == [summary |-> summary, matched |-> matched, score |-> 0]

NoRow == NewRow("", {})

\* A mutation: INSERT OR REPLACE INTO papers.
InsertRowReplacing(id, row) == [rows EXCEPT ![id] = row]

\* INSERT OR IGNORE INTO papers: a row that exists stays as it is.
InsertRow(id, row) == IF id \in papersTbl THEN rows ELSE [rows EXCEPT ![id] = row]

\* The same for each id of ids, its row taken from rowOf.
InsertRows(ids, rowOf) ==
    [i \in Ids |-> IF i \in ids \ papersTbl THEN rowOf[i] ELSE rows[i]]

\* What batch_summarize leaves in paper['summary'] for each item, or no
\* summary at all when the route does not summarise.
WebSummaries == {[i \in Ids |-> ""]} \cup [Ids -> {"tldr", "placeholder"}]

\* is_paper_posted(paper_id, guild_id, channel_id)
IsPaperPosted(id, ch) == <<id, ch>> \in posted

NoRun == [done |-> FALSE, solo |-> TRUE, fetched |-> {}]

\* A run_digest_for_channel call. delivered, recorded, failed, fetched, prior
\* and solo are history: messages sent and postings recorded by this call,
\* whether an item of it raised, the ids its fetch returned, the call that
\* completed last for the destination when this one began, and whether no
\* other call for the destination overlapped this one.
NewCycle ==
    [pc |-> "idle", dest |-> "none", keywords |-> {}, since |-> NoTime,
     filtered |-> <<>>, idx |-> 0, summary |-> "none", posted_count |-> 0,
     ret |-> NoTime, exit |-> "none",
     delivered |-> 0, recorded |-> 0, failed |-> FALSE, fetched |-> {},
     prior |-> NoRun, solo |-> TRUE]

NewWeb == [pc |-> "idle", since |-> NoTime, fetched |-> NoTime, new |-> NoTime, exit |-> "none"]

Running(g) == g.pc \notin {"idle", "done"}

Finish(g, r, why) ==
    [g EXCEPT !.pc = "done", !.ret = r, !.exit = why, !.since = NoTime,
              !.filtered = <<>>, !.idx = 0, !.summary = "none", !.posted_count = 0]

RunOf(g) == [done |-> TRUE, solo |-> g.solo, fetched |-> g.fetched]

\* `return 0` before the loop, with the metadata row written first.
EarlyReturnAdvancing(t, g, why) ==
    /\ dt' = [dt EXCEPT ![t] = Finish(g, 0, why)]
    /\ lastRun' = [lastRun EXCEPT ![g.dest] = RunOf(g)]
    /\ watermark' = utcnow

\* `return 0` before the loop (digest_manager.py:89-91, 104-105, 112-113).
EarlyReturn(t, g, why) ==
    /\ dt' = [dt EXCEPT ![t] = Finish(g, 0, why)]
    /\ lastRun' = [lastRun EXCEPT ![g.dest] = RunOf(g)]
    /\ UNCHANGED watermark

\* run_digest_for_channel up to the await of fetch_papers.
BeginCycle(t, ch) ==
    /\ ~Running(dt[t])
    /\ cyclesLeft > 0
    /\ cyclesLeft' = cyclesLeft - 1
    /\ LET keywords == subs[ch]
           others == {u \in Cycles \ {t} : Running(dt[u]) /\ dt[u].dest = ch}
           g == [NewCycle EXCEPT !.dest = ch, !.keywords = keywords,
                                 !.prior = lastRun[ch], !.solo = (others = {})]
       IN  IF keywords = {}
           THEN EarlyReturn(t, g, "nosubs")
           ELSE /\ dt' = [u \in Cycles |->
                            IF u = t THEN [g EXCEPT !.pc = "fetching",
                                                    !.since = FetchWindow(ch)]
                            ELSE IF u \in others THEN [dt[u] EXCEPT !.solo = FALSE]
                            ELSE dt[u]]
                /\ UNCHANGED <<watermark, lastRun>>
    /\ UNCHANGED <<fvars, xvars, upstream, utcnow, subs, posted, papersTbl, sent, wt>>

\* fetch_papers returns; the filter; entry into the loop.
FetchDone(t, how) ==
    /\ dt[t].pc = "fetching"
    /\ LET papers == FetchAll(DigestCategories, how, [all |-> <<>>, seen |-> {}], dt[t].since)
           filtered_papers == FilterPapersByKeywords(papers, dt[t].keywords)
           g == [dt[t] EXCEPT !.fetched = IdsOf(papers)]
       IN  IF papers = <<>> THEN EarlyReturn(t, g, "nopapers")
           ELSE IF filtered_papers = <<>> THEN EarlyReturn(t, g, "nomatch")
           ELSE /\ dt' = [dt EXCEPT ![t] = [g EXCEPT !.pc = "check",
                                                     !.filtered = filtered_papers,
                                                     !.idx = 1, !.posted_count = 0]]
                /\ UNCHANGED <<watermark, lastRun>>
    /\ UNCHANGED <<fvars, xvars, upstream, utcnow, subs, posted, papersTbl, sent, wt, cyclesLeft>>

\* A mutation: update_last_fetch_time inside the loop, after each item.
AdvanceLoopWritingEach(t, g) ==
    /\ watermark' = utcnow
    /\ IF g.idx < Len(g.filtered)
       THEN /\ dt' = [dt EXCEPT ![t] = [g EXCEPT !.pc = "check", !.idx = g.idx + 1,
                                                 !.summary = "none"]]
            /\ UNCHANGED lastRun
       ELSE /\ dt' = [dt EXCEPT ![t] = Finish(g, g.posted_count, "loop")]
            /\ lastRun' = [lastRun EXCEPT ![g.dest] = RunOf(g)]

\* The end of one pass of the loop body: the next item, or after the last
\* one update_last_fetch_time() and `return posted_count`.
AdvanceLoop(t, g) ==
    IF g.idx < Len(g.filtered)
    THEN /\ dt' = [dt EXCEPT ![t] = [g EXCEPT !.pc = "check", !.idx = g.idx + 1,
                                              !.summary = "none"]]
         /\ UNCHANGED <<watermark, lastRun>>
    ELSE /\ watermark' = utcnow
         /\ dt' = [dt EXCEPT ![t] = Finish(g, g.posted_count, "loop")]
         /\ lastRun' = [lastRun EXCEPT ![g.dest] = RunOf(g)]

CurrentPaper(g) == g.filtered[g.idx].paper

\* if is_paper_posted(...): continue; else on to the await of summarize.
CheckPosted(t) ==
    /\ dt[t].pc = "check"
    /\ IF IsPaperPosted(CurrentPaper(dt[t]).id, dt[t].dest)
       THEN AdvanceLoop(t, dt[t])
       ELSE /\ dt' = [dt EXCEPT ![t].pc = "summarize"]
            /\ UNCHANGED <<watermark, lastRun>>
    /\ UNCHANGED <<fvars, xvars, upstream, utcnow, subs, posted, papersTbl, sent, wt, cyclesLeft>>

\* A summarize that lets the backend's exception through to the loop.
SummarizeDoneRaising(t, ok) ==
    /\ dt[t].pc = "summarize"
    /\ IF ok
       THEN /\ dt' = [dt EXCEPT ![t].pc = "send", ![t].summary = "tldr"]
            /\ UNCHANGED <<watermark, lastRun>>
       ELSE AdvanceLoop(t, [dt[t] EXCEPT !.failed = TRUE])
    /\ UNCHANGED <<fvars, xvars, upstream, utcnow, subs, posted, papersTbl, sent, wt,
                   cyclesLeft>>

\* summarize returns a summary or, after a backend failure, the placeholder
\* text; it does not raise.
SummarizeDone(t, ok) ==
    /\ dt[t].pc = "summarize"
    /\ dt' = [dt EXCEPT ![t].pc = "send",
                        ![t].summary = IF ok THEN "tldr" ELSE "placeholder"]
    /\ UNCHANGED <<fvars, xvars, upstream, utcnow, watermark, subs, posted, papersTbl, sent, wt,
                   cyclesLeft, lastRun>>

\* A send whose failure is not noticed: the loop body goes on to the recording.
SendDoneRecordAnyway(t, ok) ==
    /\ dt[t].pc = "send"
    /\ IF ok
       THEN sent' = [sent EXCEPT ![<<CurrentPaper(dt[t]).id, dt[t].dest>>] = @ + 1]
       ELSE UNCHANGED sent
    /\ dt' = [dt EXCEPT ![t].pc = "react", ![t].delivered = IF ok THEN @ + 1 ELSE @]
    /\ UNCHANGED <<watermark, lastRun>>
    /\ UNCHANGED <<fvars, xvars, upstream, utcnow, subs, posted, papersTbl, wt, cyclesLeft>>

\* A send whose failure is not caught in the loop: the call ends there.
SendDoneAborting(t, ok) ==
    /\ dt[t].pc = "send"
    /\ IF ok
       THEN /\ sent' = [sent EXCEPT ![<<CurrentPaper(dt[t]).id, dt[t].dest>>] = @ + 1]
            /\ dt' = [dt EXCEPT ![t].pc = "react", ![t].delivered = @ + 1]
       ELSE /\ dt' = [dt EXCEPT ![t] = Finish([dt[t] EXCEPT !.failed = TRUE], NoTime, "raised")]
            /\ UNCHANGED sent
    /\ UNCHANGED <<watermark, lastRun>>
    /\ UNCHANGED <<fvars, xvars, upstream, utcnow, subs, posted, papersTbl, wt, cyclesLeft>>

\* channel.send returns the message, or raises into the except of the loop.
SendDone(t, ok) ==
    /\ dt[t].pc = "send"
    /\ IF ok
       THEN /\ sent' = [sent EXCEPT ![<<CurrentPaper(dt[t]).id, dt[t].dest>>] = @ + 1]
            /\ dt' = [dt EXCEPT ![t].pc = "react", ![t].delivered = @ + 1]
            /\ UNCHANGED <<watermark, lastRun>>
       ELSE /\ AdvanceLoop(t, [dt[t] EXCEPT !.failed = TRUE])
            /\ UNCHANGED sent
    /\ UNCHANGED <<fvars, xvars, upstream, utcnow, subs, posted, papersTbl, wt, cyclesLeft>>

\* A mutation: store_paper commits the item row before the posting record, so
\* a failure in the second half leaves the row behind.
StorePaperTorn(t, ok) ==
    /\ dt[t].pc = "react"
    /\ papersTbl' = papersTbl \cup {CurrentPaper(dt[t]).id}
    /\ rows' = InsertRow(CurrentPaper(dt[t]).id, NewRow(dt[t].summary, {}))
    /\ IF ok
       THEN /\ posted' = posted \cup {<<CurrentPaper(dt[t]).id, dt[t].dest>>}
            /\ AdvanceLoop(t, [dt[t] EXCEPT !.posted_count = @ + 1, !.recorded = @ + 1])
       ELSE /\ AdvanceLoop(t, [dt[t] EXCEPT !.failed = TRUE])
            /\ UNCHANGED posted
    /\ UNCHANGED <<fvars, yvars, upstream, utcnow, subs, sent, wt, cyclesLeft>>

\* add_voting_reactions returns (it catches its own errors); store_paper
\* writes the item row and the posting record, or raises into the except.
StorePaper(t, ok) ==
    /\ dt[t].pc = "react"
    /\ IF ok
       THEN /\ posted' = posted \cup {<<CurrentPaper(dt[t]).id, dt[t].dest>>}
            /\ papersTbl' = papersTbl \cup {CurrentPaper(dt[t]).id}
            /\ rows' = InsertRow(CurrentPaper(dt[t]).id, NewRow(dt[t].summary, {}))
            /\ AdvanceLoop(t, [dt[t] EXCEPT !.posted_count = @ + 1, !.recorded = @ + 1])
       ELSE /\ AdvanceLoop(t, [dt[t] EXCEPT !.failed = TRUE])
            /\ UNCHANGED <<posted, papersTbl, rows>>
    /\ UNCHANGED <<fvars, yvars, upstream, utcnow, subs, sent, wt, cyclesLeft>>

\* POST /api/fetch up to the await of fetch_papers; no `since` is passed, so
\* the fetcher takes one day before now.
WebFetchStart ==
    /\ wt.pc \in {"idle", "done"}
    /\ cyclesLeft > 0
    /\ cyclesLeft' = cyclesLeft - 1
    /\ wt' = [NewWeb EXCEPT !.pc = "fetching", !.since = utcnow - DayUnits]
    /\ UNCHANGED <<fvars, xvars, upstream, utcnow, watermark, subs, posted, papersTbl, sent, dt,
                   lastRun>>

WebReturn(n, new, why) == [wt EXCEPT !.pc = "done", !.fetched = n, !.new = new, !.exit = why]

\* The rest of POST /api/fetch.
WebFetchDone(how, use_keywords, sums) ==
    /\ wt.pc = "fetching"
    /\ LET papers == FetchAll(DigestCategories, how, [all |-> <<>>, seen |-> {}], wt.since)
           keywords == subs[WebDest]
           filtered == FilterPapersByKeywords(papers, keywords)
           kept == IF use_keywords /\ keywords # {}
                   THEN [i \in 1 .. Len(filtered) |-> filtered[i].paper]
                   ELSE papers
       IN  IF papers = <<>>
           THEN wt' = WebReturn(0, 0, "nopapers") /\ UNCHANGED <<watermark, papersTbl, rows>>
           ELSE IF kept = <<>>
           THEN wt' = WebReturn(0, 0, "nomatch") /\ UNCHANGED <<watermark, papersTbl, rows>>
           ELSE /\ papersTbl' = papersTbl \cup IdsOf(kept)
                /\ rows' = InsertRows(IdsOf(kept),
                                      [i \in Ids |->
                                         NewRow(sums[i],
                                                IF use_keywords /\ keywords # {}
                                                THEN PaperMatchesKeywords([id |-> i], keywords)
                                                ELSE {})])
                /\ watermark' = utcnow
                /\ wt' = WebReturn(Len(kept), Cardinality(IdsOf(kept) \ papersTbl), "stored")
    /\ UNCHANGED <<fvars, yvars, upstream, utcnow, subs, posted, sent, dt, cyclesLeft, lastRun>>

\* A day passes.
Tock ==
    /\ utcnow < MaxDay
    /\ utcnow' = utcnow + 1
    /\ UNCHANGED <<fvars, xvars, upstream, watermark, subs, posted, papersTbl, sent, dt, wt,
                   cyclesLeft, lastRun>>

DigestNext ==
    \/ \E t \in Cycles : \E ch \in Dests : BeginCycle(t, ch)
    \/ \E t \in Cycles : \E how \in FetchHows : FetchDone(t, how)
    \/ \E t \in Cycles : CheckPosted(t)
    \/ \E t \in Cycles : \E ok \in BOOLEAN : SummarizeDone(t, ok)
    \/ \E t \in Cycles : \E ok \in BOOLEAN : SendDone(t, ok)
    \/ \E t \in Cycles : \E ok \in BOOLEAN : StorePaper(t, ok)
    \/ WebFetchStart
    \/ \E how \in FetchHows : \E use_keywords \in BOOLEAN : \E sums \in WebSummaries :
           WebFetchDone(how, use_keywords, sums)
    \/ Tock

Voters == {"u1", "u2"}
Kinds == {"upvote", "downvote", "maybe"}
VoteKeys == Ids \X Voters \X Kinds

NoRequest == [op |-> "none"]

\* The rows of the digest_config table.
Configs == {1, 2}
\* The DigestScheduler loop between two configurations.
IdleMail == [pc |-> "idle", config |-> 0, papers |-> <<>>, delivered |-> FALSE]
\* No function is being called.
NoCall == [fn |-> "none"]
\* The digest loops a scheduler creates over a behaviour.
MaxLoops == 2
Loops == 1 .. MaxLoops
\* A tasks.Loop that _create_task has not made yet.
Unborn == [pc |-> "unborn", cancelling |-> FALSE, time |-> 0, at |-> 0, wait |-> 0,
           target |-> 0, runs |-> 0]
\* Scheduler.__init__: no loop yet (task 0 is None).
NewScheduler(schedule_time) ==
    [now |-> 0, schedule_time |-> schedule_time, task |-> 0,
     loops |-> [l \in Loops |-> Unborn], opsLeft |-> 0,
     lastOp |-> "none", wasRunning |-> FALSE]
\* No scheduler is at work.
NoSched == NewScheduler(0)
\* No digest configuration has keywords or was ever sent.
MailAtRest ==
    /\ call = NoCall
    /\ sch = NoSched
    /\ digestCfg = [c \in Configs |-> [keywords |-> {}, last_sent |-> NoTime]]
    /\ ms = IdleMail
    /\ mailed = [c \in Configs |-> [ok |-> 0, failed |-> 0]]

\* The batch_summarize calls that may run side by side.
Batches == {"b1", "b2"}
\* No batch_summarize call is running.
IdleBatch == [pc |-> "idle", n |-> 0, idx |-> 0, inflight |-> 0, failed |-> 0]

\* The requests whose store loops may run side by side.
Storers == {"w1", "w2"}
\* A store loop between two items.
IdleStore == [pc |-> "idle", id |-> 0, row |-> [summary |-> "", matched |-> {}, score |-> 0],
              wrote |-> FALSE]

\* No vote was cast and no direct storage call is allowed.
VotesAtRest ==
    /\ votes = [k \in VoteKeys |-> 0]
    /\ live = {}
    /\ webCast = [i \in Ids |-> [up |-> 0, down |-> 0]]
    /\ opsLeft = 0
    /\ lastSub = NoRequest
    /\ st = [w \in Storers |-> IdleStore]
    /\ summarizer = "none"
    /\ bs = [b \in Batches |-> IdleBatch]
    /\ MailAtRest

\* The tables and the cycles before anything ran.
DigestAtRest(budget) ==
    /\ utcnow = DayUnits
    /\ posted = {}
    /\ papersTbl = {}
    /\ sent = [k \in Ids \X Dests |-> 0]
    /\ dt = [t \in Cycles |-> NewCycle]
    /\ wt = NewWeb
    /\ cyclesLeft = budget
    /\ lastRun = [ch \in Dests |-> NoRun]
    /\ rows = [i \in Ids |-> NoRow]

\* No entry anywhere: only the requests matter.
EmptyUpstream == [q \in Queries |-> <<>>]

InitFetcher(calls, e, ups) ==
    /\ now = 0
    /\ lastReq = NoTime
    /\ upstream \in ups
    /\ env = e
    /\ ft = [t \in Tasks |-> IdleTask(calls[t])]
    /\ watermark = NoTime
    /\ subs = [ch \in Dests \cup {WebDest} |-> {}]
    /\ DigestAtRest(0)
    /\ VotesAtRest

\* One task, every outcome of an attempt, a clock that outlasts the backoffs.
InitRetry ==
    InitFetcher([t \in Tasks |-> IF t = "t1" THEN 1 ELSE 0],
                [outcomes |-> Outcomes, horizon |-> RetryHorizon, delay |-> MaxDelay,
                 sinces |-> {0}],
                {EmptyUpstream})

SpecRetry == InitRetry /\ [][FetcherNext]_vars

\* Two tasks on one ArxivFetcher instance.
InitRate ==
    InitFetcher([t \in Tasks |-> IF t = "t1" THEN MaxCalls ELSE 1],
                [outcomes |-> {"s200", "timeout"}, horizon |-> RateHorizon, delay |-> MaxDelay,
                 sinces |-> {0}],
                {EmptyUpstream})

SpecRate == InitRate /\ [][FetcherNext]_vars

\* The entries the upstream responses are built from: a recent one, and an
\* id listed once with an old date and once with a date that does not parse.
EntryPool == {Paper(1, 2), Paper(2, 0), Paper(2, BadDate)}

UpstreamChoices ==
    {[q \in Queries |-> IF q \in Categories THEN u[q] ELSE <<>>] :
        u \in [Categories -> SeqsUpTo(EntryPool, MaxEntries)]}

\* One task, one call, responses with entries; attempts succeed, are told to
\* come back later, fail for good or raise.
InitFetch ==
    InitFetcher([t \in Tasks |-> IF t = "t1" THEN 1 ELSE 0],
                [outcomes |-> {"s200", "s404", "s503", "exc"},
                 horizon |-> RateLimitSeconds * MaxCats, delay |-> 0, sinces |-> {1}],
                UpstreamChoices)

SpecFetch == InitFetch /\ [][FetcherNext]_vars

\* Entries published before, at and after day 1, without a published date
\* and with one that does not parse.
WindowPool == {Paper(1, 0), Paper(1, 1), Paper(1, 2), Paper(2, NoTime), Paper(2, BadDate)}

WindowUpstreams ==
    {[q \in Queries |-> IF q = "cs.LG" THEN u ELSE <<>>] :
        u \in SeqsUpTo(WindowPool, MaxEntries)}

\* One task, one call, on day MaxDay, with `since` left out (None) or given.
InitWindow ==
    /\ now = 0
    /\ lastReq = NoTime
    /\ upstream \in WindowUpstreams
    /\ env = [outcomes |-> {"s200", "s503"}, horizon |-> RateLimitSeconds * MaxCats,
              delay |-> 0, sinces |-> {NoTime, MaxDay}]
    /\ ft = [t \in Tasks |-> IdleTask(IF t = "t1" THEN 1 ELSE 0)]
    /\ watermark = NoTime
    /\ subs = [ch \in Dests \cup {WebDest} |-> {}]
    /\ utcnow = MaxDay
    /\ posted = {}
    /\ papersTbl = {}
    /\ sent = [k \in Ids \X Dests |-> 0]
    /\ dt = [t \in Cycles |-> NewCycle]
    /\ wt = NewWeb
    /\ cyclesLeft = 0
    /\ lastRun = [ch \in Dests |-> NoRun]
    /\ rows = [i \in Ids |-> NoRow]
    /\ VotesAtRest

SpecWindow == InitWindow /\ [][FetcherNext]_vars

\* Both categories list item 1, a day old; item 2 is new or carries a date
\* that does not parse.
DigestUpstreams ==
    {[q \in Queries |->
        CASE q = "cs.LG" -> <<Paper(1, p1)>>
          [] q = "cs.AI" -> <<Paper(2, p2), Paper(1, p1)>>
          [] OTHER -> <<>>] : p1 \in {0}, p2 \in {1, BadDate}}

SubsChoices ==
    {[ch \in Dests \cup {WebDest} |->
        CASE ch = "chA" -> a [] ch = "chB" -> b [] OTHER -> w] :
        a \in {{}, {"attention"}}, b \in {{"gan"}}, w \in {{"gan"}}}

\* The digest cycles and the web route on one database; the fetcher is called
\* as a whole.
Init ==
    /\ now = 0
    /\ lastReq = NoTime
    /\ env = [outcomes |-> {}, horizon |-> 0, delay |-> 0, sinces |-> {}]
    /\ ft = [t \in Tasks |-> IdleTask(0)]
    /\ upstream \in DigestUpstreams
    /\ watermark = NoTime
    /\ subs \in SubsChoices
    /\ DigestAtRest(MaxCycles)
    /\ VotesAtRest

Spec == Init /\ [][DigestNext]_vars

-----------------------------------------------------------------------------
(* Votes: POST /api/vote on the score column, reactions on the votes table *)

MaxOps == 4

\* vote_paper: UPDATE papers SET score = score + delta WHERE id = paper_id.
\* A mutation that forgets the sign of the vote.
VotePaperUnsigned(paper_id, delta) ==
    IF paper_id \in papersTbl
    THEN [rows EXCEPT ![paper_id].score = @ + 1]
    ELSE rows

VotePaper(paper_id, delta) ==
    IF paper_id \in papersTbl
    THEN [rows EXCEPT ![paper_id].score = @ + delta]
    ELSE rows

\* get_paper_score: the score column of the row, 0 when there is no row.
GetPaperScore(paper_id) ==
    IF paper_id \in papersTbl THEN rows[paper_id].score ELSE 0

\* POST /api/vote/{paper_id}?vote_type=up|down. The request names no voter.
Vote(paper_id, vote_type) ==
    /\ opsLeft > 0
    /\ opsLeft' = opsLeft - 1
    /\ rows' = VotePaper(paper_id, IF vote_type = "up" THEN 1 ELSE -1)
    /\ webCast' =
         IF paper_id \in papersTbl
         THEN [webCast EXCEPT ![paper_id][vote_type] = @ + 1]
         ELSE webCast
    /\ UNCHANGED <<fvars, upstream, utcnow, watermark, subs, posted, papersTbl, sent, dt, wt,
                   cyclesLeft, lastRun, summarizer, bs, zvars, votes, live, lastSub, st>>

\* get_paper_by_message: the item the message in a channel was posted for.
NoPaper == 0
GetPaperByMessage(ch, id) == IF <<id, ch>> \in posted THEN id ELSE NoPaper

\* add_vote: one row per (item, voter, kind); a second add replaces the row.
AddVote(paper_id, user_id, vote_type) ==
    [votes EXCEPT ![<<paper_id, user_id, vote_type>>] = 1]

\* remove_vote: deletes the row of (item, voter, kind).
RemoveVote(paper_id, user_id, vote_type) ==
    [votes EXCEPT ![<<paper_id, user_id, vote_type>>] = 0]

RECURSIVE CountRows(_, _, _)
CountRows(paper_id, vote_type, users) ==
    IF users = {} THEN 0
    ELSE LET u == CHOOSE x \in users : TRUE
         IN  votes[<<paper_id, u, vote_type>>] + CountRows(paper_id, vote_type, users \ {u})

\* get_vote_summary: the rows of the item, counted per kind.
GetVoteSummary(paper_id) ==
    [upvotes |-> CountRows(paper_id, "upvote", Voters),
     downvotes |-> CountRows(paper_id, "downvote", Voters),
     maybe |-> CountRows(paper_id, "maybe", Voters)]

\* top_papers: score = paper['upvotes'] - paper['downvotes'].
TopScore(paper_id) ==
    GetVoteSummary(paper_id).upvotes - GetVoteSummary(paper_id).downvotes

Emojis == {"up", "maybe", "down", "other"}
VoteType(emoji) ==
    CASE emoji = "up" -> "upvote" [] emoji = "down" -> "downvote" [] OTHER -> "maybe"

\* _handle_vote: a reaction by user_id was added to (is_add) or removed from
\* the message that carries item id in channel ch.
HandleVote(ch, id, user_id, emoji, is_add) ==
    /\ opsLeft > 0
    /\ opsLeft' = opsLeft - 1
    /\ LET paper_id == GetPaperByMessage(ch, id)
           key == <<paper_id, user_id, VoteType(emoji)>>
       IN  IF emoji = "other" \/ paper_id = NoPaper
           THEN UNCHANGED <<votes, live>>
           ELSE IF is_add
           THEN /\ votes' = AddVote(paper_id, user_id, VoteType(emoji))
                /\ live' = live \cup {key}
           ELSE /\ votes' = RemoveVote(paper_id, user_id, VoteType(emoji))
                /\ live' = live \ {key}
    /\ UNCHANGED <<fvars, upstream, utcnow, watermark, subs, posted, papersTbl, sent, dt, wt,
                   cyclesLeft, lastRun, summarizer, bs, zvars, rows, webCast, lastSub, st>>

VotesNext ==
    \/ \E paper_id \in Ids : \E vote_type \in {"up", "down"} : Vote(paper_id, vote_type)
    \/ \E ch \in Dests : \E id \in Ids : \E user_id \in Voters : \E emoji \in Emojis :
           \E is_add \in BOOLEAN : HandleVote(ch, id, user_id, emoji, is_add)

\* Item 1 was delivered to chA and stored; item 2 is stored or not, and was
\* delivered nowhere.
InitVotes ==
    /\ now = 0
    /\ lastReq = NoTime
    /\ env = [outcomes |-> {}, horizon |-> 0, delay |-> 0, sinces |-> {}]
    /\ ft = [t \in Tasks |-> IdleTask(0)]
    /\ upstream = EmptyUpstream
    /\ watermark = NoTime
    /\ subs = [ch \in Dests \cup {WebDest} |-> {}]
    /\ utcnow = DayUnits
    /\ posted = {<<1, "chA">>}
    /\ papersTbl \in {{1}, {1, 2}}
    /\ sent = [k \in Ids \X Dests |-> IF k = <<1, "chA">> THEN 1 ELSE 0]
    /\ dt = [t \in Cycles |-> NewCycle]
    /\ wt = NewWeb
    /\ cyclesLeft = 0
    /\ lastRun = [ch \in Dests |-> NoRun]
    /\ rows = [i \in Ids |-> IF i \in papersTbl THEN NewRow("tldr", {}) ELSE NoRow]
    /\ votes = [k \in VoteKeys |-> 0]
    /\ live = {}
    /\ webCast = [i \in Ids |-> [up |-> 0, down |-> 0]]
    /\ opsLeft = MaxOps
    /\ lastSub = NoRequest
    /\ st = [w \in Storers |-> IdleStore]
    /\ summarizer = "none"
    /\ bs = [b \in Batches |-> IdleBatch]
    /\ MailAtRest

SpecVotes == InitVotes /\ [][VotesNext]_vars

-----------------------------------------------------------------------------
(* The store loop of POST /api/fetch, one database call at a time *)

\* is_paper_stored
IsPaperStored(paper_id) == paper_id \in papersTbl

\* The rows a request may bring for an item: summarised or not, with or
\* without matched keywords.
StoreRows == {NewRow(s, m) : s \in {"", "tldr"}, m \in {{}, {"attention"}}}

\* The loop of request w reaches item id: if not await is_paper_stored(id).
StoreCheck(w, id, row) ==
    /\ opsLeft > 0
    /\ st[w].pc = "idle"
    /\ opsLeft' = opsLeft - 1
    /\ st' = [st EXCEPT ![w] =
                 IF IsPaperStored(id)
                 THEN [IdleStore EXCEPT !.id = id, !.row = row]
                 ELSE [pc |-> "store", id |-> id, row |-> row, wrote |-> FALSE]]
    /\ UNCHANGED <<fvars, upstream, utcnow, watermark, subs, posted, papersTbl, sent, dt, wt,
                   cyclesLeft, lastRun, summarizer, bs, zvars, rows, votes, live, webCast, lastSub>>

\* await store_paper_local(paper)
StorePaperLocal(w) ==
    /\ st[w].pc = "store"
    /\ rows' = InsertRow(st[w].id, st[w].row)
    /\ papersTbl' = papersTbl \cup {st[w].id}
    /\ st' = [st EXCEPT ![w].pc = "idle", ![w].wrote = TRUE]
    /\ UNCHANGED <<fvars, upstream, utcnow, watermark, subs, posted, sent, dt, wt,
                   cyclesLeft, lastRun, summarizer, bs, zvars, votes, live, webCast, opsLeft, lastSub>>

StoreNext ==
    \/ \E w \in Storers : \E id \in Ids : \E row \in StoreRows : StoreCheck(w, id, row)
    \/ \E w \in Storers : StorePaperLocal(w)
    \/ \E paper_id \in Ids : \E vote_type \in {"up", "down"} : Vote(paper_id, vote_type)

\* An empty database.
InitStore ==
    /\ now = 0
    /\ lastReq = NoTime
    /\ env = [outcomes |-> {}, horizon |-> 0, delay |-> 0, sinces |-> {}]
    /\ ft = [t \in Tasks |-> IdleTask(0)]
    /\ upstream = EmptyUpstream
    /\ watermark = NoTime
    /\ subs = [ch \in Dests \cup {WebDest} |-> {}]
    /\ DigestAtRest(0)
    /\ votes = [k \in VoteKeys |-> 0]
    /\ live = {}
    /\ webCast = [i \in Ids |-> [up |-> 0, down |-> 0]]
    /\ opsLeft = MaxOps
    /\ lastSub = NoRequest
    /\ st = [w \in Storers |-> IdleStore]
    /\ summarizer = "none"
    /\ bs = [b \in Batches |-> IdleBatch]
    /\ MailAtRest

SpecStore == InitStore /\ [][StoreNext]_vars

-----------------------------------------------------------------------------
(* batch_summarize: the summaries of a batch of items *)

MaxBatch == 6
\* max_concurrent=llm_cfg.get('max_concurrent', 5)
MaxConcurrent == 5

\* Summarizer.__init__ hands its extra keyword arguments to the provider's
\* constructor, and neither OpenAIProvider nor HuggingFaceProvider takes
\* max_concurrent: _get_summarizer, which passes it, catches the TypeError
\* and returns None; the bot constructs the Summarizer without it.
GetSummarizer(via) == IF via = "cli" THEN "none" ELSE "ready"

\* if summarize and summarizer: papers = await batch_summarize(papers),
\* for a batch of n items.
BatchStart(b, n) ==
    /\ bs[b].pc \in {"idle", "done"}
    /\ opsLeft > 0
    /\ opsLeft' = opsLeft - 1
    /\ bs' = [bs EXCEPT ![b] =
                 [IdleBatch EXCEPT !.n = n,
                                   !.pc = IF summarizer = "none" \/ n = 0 THEN "done"
                                                                           ELSE "loop"]]
    /\ UNCHANGED <<fvars, upstream, dvars_but_bs>>

\* A mutation: the calls of a batch are started without waiting for one
\* another.
SummarizeCallUnbounded(b) ==
    /\ bs[b].pc = "loop"
    /\ bs[b].idx + bs[b].inflight < bs[b].n
    /\ bs' = [bs EXCEPT ![b].inflight = @ + 1]
    /\ UNCHANGED <<fvars, upstream, dvars_but_bs, opsLeft>>

\* for paper in papers: summary = await self.summarize(paper). The next
\* call is made when the one before has returned.
SummarizeCall(b) ==
    /\ bs[b].pc = "loop"
    /\ bs[b].inflight = 0
    /\ bs[b].idx < bs[b].n
    /\ bs' = [bs EXCEPT ![b].inflight = @ + 1]
    /\ UNCHANGED <<fvars, upstream, dvars_but_bs, opsLeft>>

\* The call returns, with the summary or, when the backend failed, with the
\* placeholder; after the last item batch_summarize returns.
SummarizeReturn(b, ok) ==
    /\ bs[b].pc = "loop"
    /\ bs[b].inflight > 0
    /\ bs' = [bs EXCEPT ![b].inflight = @ - 1,
                        ![b].idx = @ + 1,
                        ![b].failed = IF ok THEN @ ELSE 1,
                        ![b].pc = IF bs[b].idx + 1 = bs[b].n THEN "done" ELSE "loop"]
    /\ UNCHANGED <<fvars, upstream, dvars_but_bs, opsLeft>>

BatchNext ==
    \/ \E b \in Batches : \E n \in 0..MaxBatch : BatchStart(b, n)
    \/ \E b \in Batches : SummarizeCall(b)
    \/ \E b \in Batches : \E ok \in BOOLEAN : SummarizeReturn(b, ok)

\* The Summarizer was constructed by the command line or by the bot.
InitBatch ==
    /\ now = 0
    /\ lastReq = NoTime
    /\ env = [outcomes |-> {}, horizon |-> 0, delay |-> 0, sinces |-> {}]
    /\ ft = [t \in Tasks |-> IdleTask(0)]
    /\ upstream = EmptyUpstream
    /\ watermark = NoTime
    /\ subs = [ch \in Dests \cup {WebDest} |-> {}]
    /\ DigestAtRest(0)
    /\ votes = [k \in VoteKeys |-> 0]
    /\ live = {}
    /\ webCast = [i \in Ids |-> [up |-> 0, down |-> 0]]
    /\ opsLeft = MaxOps
    /\ lastSub = NoRequest
    /\ st = [w \in Storers |-> IdleStore]
    /\ summarizer \in {GetSummarizer(via) : via \in {"cli", "bot"}}
    /\ bs = [b \in Batches |-> IdleBatch]
    /\ MailAtRest

SpecBatch == InitBatch /\ [][BatchNext]_vars

-----------------------------------------------------------------------------
(* DigestScheduler: the email digests *)

\* _check_and_send, for one configuration: sent never before, or sent long
\* enough ago (20 hours for a daily digest).
Due(c) ==
    \/ digestCfg[c].last_sent = NoTime
    \/ utcnow - digestCfg[c].last_sent >= DayUnits

\* _check_and_send reaches configuration c, which is due and near its send
\* hour, and calls _send_digest up to the await of fetch_papers.
CheckAndSend(c) ==
    /\ ms.pc = "idle"
    /\ opsLeft > 0
    /\ Due(c)
    /\ opsLeft' = opsLeft - 1
    /\ ms' = [IdleMail EXCEPT !.pc = "fetching", !.config = c]
    /\ UNCHANGED <<fvars, upstream, utcnow, watermark, subs, posted, papersTbl, sent, dt, wt,
                   cyclesLeft, lastRun, rows, votes, live, webCast, lastSub, st, qvars, summarizer,
                   bs, digestCfg, mailed>>

\* fetch_papers returned (no `since`: one day before now); the papers are
\* filtered by the configuration's keywords if it has any and summarised;
\* `if papers:` leads to the await of mailer.send_digest.
MailFetchDone(how) ==
    /\ ms.pc = "fetching"
    /\ LET fetched == FetchAll(DigestCategories, how, [all |-> <<>>, seen |-> {}],
                               utcnow - DayUnits)
           keywords == digestCfg[ms.config].keywords
           filtered == FilterPapersByKeywords(fetched, keywords)
           papers == IF keywords # {}
                     THEN [i \in 1 .. Len(filtered) |-> filtered[i].paper]
                     ELSE fetched
       IN  ms' = IF papers = <<>> THEN [ms EXCEPT !.pc = "idle"]
                 ELSE [ms EXCEPT !.pc = "sending", !.papers = papers]
    /\ UNCHANGED <<fvars, upstream, utcnow, watermark, subs, posted, papersTbl, sent, dt, wt,
                   cyclesLeft, lastRun, rows, votes, live, webCast, opsLeft, lastSub, st, qvars,
                   summarizer, bs, digestCfg, mailed>>

\* A mutation: the result of send_digest is not looked at.
MailSendDoneUnchecked(ok) ==
    /\ ms.pc = "sending"
    /\ mailed' = [mailed EXCEPT ![ms.config][IF ok THEN "ok" ELSE "failed"] = @ + 1]
    /\ ms' = [ms EXCEPT !.pc = "update", !.delivered = ok]
    /\ UNCHANGED <<fvars, upstream, utcnow, watermark, subs, posted, papersTbl, sent, dt, wt,
                   cyclesLeft, lastRun, rows, votes, live, webCast, opsLeft, lastSub, st, qvars,
                   summarizer, bs, digestCfg>>

\* send_digest returned: True after the SMTP exchange, False when it raised;
\* `if success:` leads to the await of update_digest_last_sent.
MailSendDone(ok) ==
    /\ ms.pc = "sending"
    /\ mailed' = [mailed EXCEPT ![ms.config][IF ok THEN "ok" ELSE "failed"] = @ + 1]
    /\ ms' = [ms EXCEPT !.pc = IF ok THEN "update" ELSE "idle", !.delivered = ok]
    /\ UNCHANGED <<fvars, upstream, utcnow, watermark, subs, posted, papersTbl, sent, dt, wt,
                   cyclesLeft, lastRun, rows, votes, live, webCast, opsLeft, lastSub, st, qvars,
                   summarizer, bs, digestCfg>>

\* update_digest_last_sent: UPDATE digest_config SET last_sent = now WHERE id.
UpdateDigestLastSent ==
    /\ ms.pc = "update"
    /\ digestCfg' = [digestCfg EXCEPT ![ms.config].last_sent = utcnow]
    /\ ms' = [ms EXCEPT !.pc = "idle"]
    /\ UNCHANGED <<fvars, upstream, utcnow, watermark, subs, posted, papersTbl, sent, dt, wt,
                   cyclesLeft, lastRun, rows, votes, live, webCast, opsLeft, lastSub, st, qvars,
                   summarizer, bs, mailed>>

MailNext ==
    \/ \E c \in Configs : CheckAndSend(c)
    \/ \E how \in FetchHows : MailFetchDone(how)
    \/ \E ok \in BOOLEAN : MailSendDone(ok)
    \/ UpdateDigestLastSent
    \/ Tock

\* Two configurations, never sent: one for "gan", one with no keywords or
\* with a keyword no item carries.
InitMail ==
    /\ now = 0
    /\ lastReq = NoTime
    /\ env = [outcomes |-> {}, horizon |-> 0, delay |-> 0, sinces |-> {}]
    /\ ft = [t \in Tasks |-> IdleTask(0)]
    /\ upstream \in DigestUpstreams
    /\ watermark = NoTime
    /\ subs = [ch \in Dests \cup {WebDest} |-> {}]
    /\ DigestAtRest(0)
    /\ votes = [k \in VoteKeys |-> 0]
    /\ live = {}
    /\ webCast = [i \in Ids |-> [up |-> 0, down |-> 0]]
    /\ opsLeft = MaxOps
    /\ lastSub = NoRequest
    /\ st = [w \in Storers |-> IdleStore]
    /\ summarizer = "ready"
    /\ bs = [b \in Batches |-> IdleBatch]
    /\ digestCfg \in {[c \in Configs |->
                          [keywords |-> IF c = 1 THEN {"gan"} ELSE k, last_sent |-> NoTime]] :
                      k \in {{}, {"quantum"}}}
    /\ ms = IdleMail
    /\ mailed = [c \in Configs |-> [ok |-> 0, failed |-> 0]]
    /\ call = NoCall
    /\ sch = NoSched

SpecMail == InitMail /\ [][MailNext]_vars

-----------------------------------------------------------------------------
(* Subscriptions: the subscribe and unsubscribe handlers on the table *)

\* Keywords as typed, character by character.
RawKeywords ==
    {<<"a">>, <<"A">>, <<" ", "a">>, <<"A", " ">>, <<"b">>, <<" ", "B", " ">>, <<" ">>}

LowerChar(c) == CASE c = "A" -> "a" [] c = "B" -> "b" [] OTHER -> c
\* str.lower()
Lower(k) == [i \in 1..Len(k) |-> LowerChar(k[i])]

RECURSIVE LStrip(_)
LStrip(k) == IF k # <<>> /\ Head(k) = " " THEN LStrip(Tail(k)) ELSE k
RECURSIVE RStrip(_)
RStrip(k) ==
    IF k # <<>> /\ k[Len(k)] = " " THEN RStrip(SubSeq(k, 1, Len(k) - 1)) ELSE k
\* str.strip()
Strip(k) == RStrip(LStrip(k))

\* add_subscription: INSERT with keyword.lower(); the UNIQUE constraint on
\* (guild, channel, keyword) raises IntegrityError, which returns False.
AddSubscription(ch, keyword) ==
    IF Lower(keyword) \in subs[ch]
    THEN [tbl |-> subs, ret |-> FALSE]
    ELSE [tbl |-> [subs EXCEPT ![ch] = @ \cup {Lower(keyword)}], ret |-> TRUE]

\* remove_subscription: DELETE with keyword.lower(); returns rowcount > 0.
RemoveSubscription(ch, keyword) ==
    [tbl |-> [subs EXCEPT ![ch] = @ \ {Lower(keyword)}],
     ret |-> Lower(keyword) \in subs[ch]]

\* get_channel_subscriptions
GetChannelSubscriptions(ch) == subs[ch]

\* What the handlers pass to the database: keyword.strip().lower().
\* A mutation that passes the keyword as typed.
HandlerKeywordUntrimmed(raw) == raw

HandlerKeyword(raw) == Lower(Strip(raw))

\* The bot and the command line drop a keyword that is blank (if k.strip());
\* the web route passes it on.
Dropped(ch, raw) == ch \in Dests /\ Strip(raw) = <<>>

\* /subscribe, arxivscribe subscribe, POST /api/subscribe.
Subscribe(ch, raw) ==
    /\ opsLeft > 0
    /\ opsLeft' = opsLeft - 1
    /\ IF Dropped(ch, raw)
       THEN /\ subs' = subs
            /\ lastSub' = [op |-> "add", ch |-> ch, raw |-> raw, called |-> FALSE,
                           ret |-> FALSE]
       ELSE LET r == AddSubscription(ch, HandlerKeyword(raw))
            IN  /\ subs' = r.tbl
                /\ lastSub' = [op |-> "add", ch |-> ch, raw |-> raw, called |-> TRUE,
                               ret |-> r.ret]
    /\ UNCHANGED <<fvars, upstream, utcnow, watermark, posted, papersTbl, sent, dt, wt,
                   cyclesLeft, lastRun, summarizer, bs, zvars, rows, votes, live, webCast, st>>

\* /unsubscribe, arxivscribe unsubscribe, DELETE /api/subscribe.
Unsubscribe(ch, raw) ==
    /\ opsLeft > 0
    /\ opsLeft' = opsLeft - 1
    /\ IF Dropped(ch, raw)
       THEN /\ subs' = subs
            /\ lastSub' = [op |-> "remove", ch |-> ch, raw |-> raw, called |-> FALSE,
                           ret |-> FALSE]
       ELSE LET r == RemoveSubscription(ch, HandlerKeyword(raw))
            IN  /\ subs' = r.tbl
                /\ lastSub' = [op |-> "remove", ch |-> ch, raw |-> raw, called |-> TRUE,
                               ret |-> r.ret]
    /\ UNCHANGED <<fvars, upstream, utcnow, watermark, posted, papersTbl, sent, dt, wt,
                   cyclesLeft, lastRun, summarizer, bs, zvars, rows, votes, live, webCast, st>>

SubsNext ==
    \/ \E ch \in Dests \cup {WebDest} : \E raw \in RawKeywords : Subscribe(ch, raw)
    \/ \E ch \in Dests \cup {WebDest} : \E raw \in RawKeywords : Unsubscribe(ch, raw)

\* An empty database.
InitSubs ==
    /\ now = 0
    /\ lastReq = NoTime
    /\ env = [outcomes |-> {}, horizon |-> 0, delay |-> 0, sinces |-> {}]
    /\ ft = [t \in Tasks |-> IdleTask(0)]
    /\ upstream = EmptyUpstream
    /\ watermark = NoTime
    /\ subs = [ch \in Dests \cup {WebDest} |-> {}]
    /\ DigestAtRest(0)
    /\ votes = [k \in VoteKeys |-> 0]
    /\ live = {}
    /\ webCast = [i \in Ids |-> [up |-> 0, down |-> 0]]
    /\ opsLeft = MaxOps
    /\ lastSub = NoRequest
    /\ st = [w \in Storers |-> IdleStore]
    /\ summarizer = "none"
    /\ bs = [b \in Batches |-> IdleBatch]
    /\ MailAtRest

SpecSubs == InitSubs /\ [][SubsNext]_vars

-----------------------------------------------------------------------------
(* KeywordFilter, character by character *)

MaxText == 3
MaxKeyword == 2

\* The characters of texts and keywords: letters in both cases, a character
\* that is neither a letter nor a space, and the space.
Alphabet == {"a", "A", "s", "+", " "}

\* normalize_text: text.lower().strip()
normalize_text(text) == Strip(Lower(text))

\* What the regular expression's \w matches.
IsWordChar(c) == c \in {"a", "A", "s"}
\* Whether position j of text holds a word character; outside the text there
\* is none.
IsWordAt(text, j) == j \in 1 .. Len(text) /\ IsWordChar(text[j])
\* \b between positions j - 1 and j.
WordBoundary(text, j) == IsWordAt(text, j - 1) # IsWordAt(text, j)

\* The offsets at which keyword occurs in text.
Occurrences(text, keyword) ==
    {i \in 1 .. Len(text) - Len(keyword) + 1 :
        SubSeq(text, i, i + Len(keyword) - 1) = keyword}

\* matches_keyword: `keyword in text`, or with fuzzy a search for
\* \b + re.escape(keyword) + \b, both on the normalized strings.
matches_keyword(text, keyword, fuzzy) ==
    LET t == normalize_text(text)
        k == normalize_text(keyword)
    IN  IF ~fuzzy
        THEN Occurrences(t, k) # {}
        ELSE \E i \in Occurrences(t, k) :
                 WordBoundary(t, i) /\ WordBoundary(t, i + Len(k))

Texts == SeqsUpTo(Alphabet, MaxText)
KeywordStrings == SeqsUpTo(Alphabet, MaxKeyword)

\* KeywordFilter.matches_keyword(text, keyword, fuzzy) is called and returns.
MatchesKeywordCall ==
    /\ call.fn = "matches_keyword"
    /\ ~call.done
    /\ call' = [call EXCEPT !.done = TRUE,
                            !.out = matches_keyword(call.text, call.keyword, call.fuzzy)]
    /\ UNCHANGED <<fvars, upstream, utcnow, watermark, subs, posted, papersTbl, sent, dt, wt,
                   cyclesLeft, lastRun, rows, votes, live, webCast, opsLeft, lastSub, st,
                   summarizer, bs, digestCfg, ms, mailed, sch>>

MatchNext == MatchesKeywordCall

\* Any text, any keyword, either mode.
InitMatch ==
    /\ now = 0
    /\ lastReq = NoTime
    /\ env = [outcomes |-> {}, horizon |-> 0, delay |-> 0, sinces |-> {}]
    /\ ft = [t \in Tasks |-> IdleTask(0)]
    /\ upstream = EmptyUpstream
    /\ watermark = NoTime
    /\ subs = [ch \in Dests \cup {WebDest} |-> {}]
    /\ DigestAtRest(0)
    /\ votes = [k \in VoteKeys |-> 0]
    /\ live = {}
    /\ webCast = [i \in Ids |-> [up |-> 0, down |-> 0]]
    /\ opsLeft = 0
    /\ lastSub = NoRequest
    /\ st = [w \in Storers |-> IdleStore]
    /\ summarizer = "none"
    /\ bs = [b \in Batches |-> IdleBatch]
    /\ digestCfg = [c \in Configs |-> [keywords |-> {}, last_sent |-> NoTime]]
    /\ ms = IdleMail
    /\ mailed = [c \in Configs |-> [ok |-> 0, failed |-> 0]]
    /\ sch = NoSched
    /\ call \in {[fn |-> "matches_keyword", text |-> text, keyword |-> keyword,
                   fuzzy |-> fuzzy, done |-> FALSE, out |-> FALSE] :
                      text \in Texts, keyword \in KeywordStrings, fuzzy \in BOOLEAN}

SpecMatch == InitMatch /\ [][MatchNext]_vars

MaxPapers == 2
MaxKeywordList == 2

\* " ".join([title, abstract, summary, " ".join(categories)]) of a paper
\* that has neither summary nor categories.
SearchableText(paper) == paper.title \o <<" ">> \o paper.abstract \o <<" ">> \o <<" ">>

\* A mutation: the matched set holds the keywords normalized.
paper_matches_keywords_normalized(paper, keywords, fuzzy) ==
    {normalize_text(keywords[i]) : i \in {j \in 1 .. Len(keywords) :
         matches_keyword(SearchableText(paper), keywords[j], fuzzy)}}

\* paper_matches_keywords: the supplied keywords that match the text.
paper_matches_keywords(paper, keywords, fuzzy) ==
    {keywords[i] : i \in {j \in 1 .. Len(keywords) :
         matches_keyword(SearchableText(paper), keywords[j], fuzzy)}}

\* filter_papers_by_keywords: for paper in papers, append (paper, matched)
\* if matched.
RECURSIVE filter_papers_by_keywords(_, _, _)
filter_papers_by_keywords(papers, keywords, fuzzy) ==
    IF papers = <<>> THEN <<>>
    ELSE LET matched == paper_matches_keywords(Head(papers), keywords, fuzzy)
         IN  (IF matched # {} THEN <<<<Head(papers), matched>>>> ELSE <<>>)
             \o filter_papers_by_keywords(Tail(papers), keywords, fuzzy)

PaperPool == [title : {<<"a">>, <<"s">>, <<"a", "s">>}, abstract : {<<>>, <<"A">>}]
KeywordPool == {<<"a">>, <<"A">>, <<"s">>, <<"+">>}

\* KeywordFilter.filter_papers_by_keywords(papers, keywords, fuzzy) is called
\* and returns.
FilterCall ==
    /\ call.fn = "filter_papers_by_keywords"
    /\ ~call.done
    /\ call' = [call EXCEPT !.done = TRUE,
                            !.out = filter_papers_by_keywords(call.papers, call.keywords,
                                                              call.fuzzy)]
    /\ UNCHANGED <<fvars, upstream, utcnow, watermark, subs, posted, papersTbl, sent, dt, wt,
                   cyclesLeft, lastRun, rows, votes, live, webCast, opsLeft, lastSub, st,
                   summarizer, bs, digestCfg, ms, mailed, sch>>

FilterNext == FilterCall

\* Any list of papers, any list of keywords, either mode.
InitFilter ==
    /\ now = 0
    /\ lastReq = NoTime
    /\ env = [outcomes |-> {}, horizon |-> 0, delay |-> 0, sinces |-> {}]
    /\ ft = [t \in Tasks |-> IdleTask(0)]
    /\ upstream = EmptyUpstream
    /\ watermark = NoTime
    /\ subs = [ch \in Dests \cup {WebDest} |-> {}]
    /\ DigestAtRest(0)
    /\ votes = [k \in VoteKeys |-> 0]
    /\ live = {}
    /\ webCast = [i \in Ids |-> [up |-> 0, down |-> 0]]
    /\ opsLeft = 0
    /\ lastSub = NoRequest
    /\ st = [w \in Storers |-> IdleStore]
    /\ summarizer = "none"
    /\ bs = [b \in Batches |-> IdleBatch]
    /\ digestCfg = [c \in Configs |-> [keywords |-> {}, last_sent |-> NoTime]]
    /\ ms = IdleMail
    /\ mailed = [c \in Configs |-> [ok |-> 0, failed |-> 0]]
    /\ sch = NoSched
    /\ call \in {[fn |-> "filter_papers_by_keywords", papers |-> papers,
                   keywords |-> keywords, fuzzy |-> fuzzy, done |-> FALSE, out |-> <<>>] :
                      papers \in SeqsUpTo(PaperPool, MaxPapers),
                      keywords \in SeqsUpTo(KeywordPool, MaxKeywordList),
                      fuzzy \in BOOLEAN}

SpecFilter == InitFilter /\ [][FilterNext]_vars

-----------------------------------------------------------------------------
(* ArxivParser *)

MaxDocEntries == 2

\* What entry.find(...) gives for an element of an entry: no such element,
\* an element without text (its .text is None), or the text.
NoElement == <<"no element">>
NoText == <<"no text">>

\* The text of an <id> element, cut at its slashes into pieces, "/abs/" being
\* a piece of its own.
IdUrls == {<<"http://arxiv.org", "/abs/", "2301.00001v1">>, <<"http://arxiv.org", "2301">>}

\* An <entry>: its id, title and summary elements, the names of its authors
\* and the terms of its categories.
Entries ==
    [id : {NoElement, NoText} \cup IdUrls,
     title : {NoElement, NoText, <<"Test Paper Title">>},
     summary : {<<"This is a test abstract.">>},
     authors : {<<>>, <<"John Doe", "Jane Roe">>},
     categories : {<<>>, <<"cs.LG">>}]

\* A response body: one that is not XML, or a feed of entries.
Malformed == [wellformed |-> FALSE, entries |-> <<>>]
Documents ==
    {Malformed} \cup {[wellformed |-> TRUE, entries |-> e] : e \in SeqsUpTo(Entries, MaxDocEntries)}

\* arxiv_url.split("/abs/")[-1] if "/abs/" in arxiv_url else "".
RECURSIVE AfterAbs(_)
AfterAbs(url) ==
    IF url = <<>> THEN <<>>
    ELSE IF \E i \in 2 .. Len(url) : url[i] = "/abs/" THEN AfterAbs(Tail(url))
    ELSE IF Head(url) = "/abs/" THEN Tail(url)
    ELSE url
ArxivId(url) ==
    IF \E i \in 1 .. Len(url) : url[i] = "/abs/" THEN AfterAbs(url) ELSE <<>>

\* The statements of _parse_entry that raise: `"/abs/" in None`,
\* None.strip() for the title and for the summary.
Raises(entry) ==
    \/ entry.id = NoText
    \/ entry.title = NoText
    \/ entry.summary = NoText

\* _parse_entry: the record, or None when a statement raised.
None == [none |-> TRUE]
parse_entry(entry) ==
    IF Raises(entry) THEN None
    ELSE LET arxiv_url == IF entry.id = NoElement THEN <<>> ELSE entry.id
         IN  [id |-> ArxivId(arxiv_url),
              title |-> IF entry.title = NoElement THEN <<"Unknown">> ELSE entry.title,
              abstract |-> IF entry.summary = NoElement THEN <<>> ELSE entry.summary,
              authors |-> entry.authors,
              categories |-> entry.categories,
              url |-> arxiv_url]

\* A mutation: _parse_entry lets its exception out, and the except of
\* parse_response ends the loop.
RECURSIVE parse_entries_aborting(_)
parse_entries_aborting(entries) ==
    IF entries = <<>> \/ Raises(Head(entries)) THEN <<>>
    ELSE <<parse_entry(Head(entries))>> \o parse_entries_aborting(Tail(entries))

\* for entry in entries: paper = self._parse_entry(entry); if paper: append.
RECURSIVE parse_entries(_)
parse_entries(entries) ==
    IF entries = <<>> THEN <<>>
    ELSE (IF parse_entry(Head(entries)) # None
          THEN <<parse_entry(Head(entries))>> ELSE <<>>)
         \o parse_entries(Tail(entries))

\* parse_response: ET.fromstring raises ParseError on a malformed document,
\* which is logged, and the empty list is returned.
parse_response(xml_content) ==
    IF ~xml_content.wellformed
    THEN [raised |-> FALSE, papers |-> <<>>]
    ELSE [raised |-> FALSE, papers |-> parse_entries(xml_content.entries)]

\* ArxivParser.parse_response(xml_content) is called and returns.
ParseCall ==
    /\ call.fn = "parse_response"
    /\ ~call.done
    /\ call' = [call EXCEPT !.done = TRUE, !.out = parse_response(call.xml_content)]
    /\ UNCHANGED <<fvars, upstream, utcnow, watermark, subs, posted, papersTbl, sent, dt, wt,
                   cyclesLeft, lastRun, rows, votes, live, webCast, opsLeft, lastSub, st,
                   summarizer, bs, digestCfg, ms, mailed, sch>>

ParseNext == ParseCall

\* Any document.
InitParse ==
    /\ now = 0
    /\ lastReq = NoTime
    /\ env = [outcomes |-> {}, horizon |-> 0, delay |-> 0, sinces |-> {}]
    /\ ft = [t \in Tasks |-> IdleTask(0)]
    /\ upstream = EmptyUpstream
    /\ watermark = NoTime
    /\ subs = [ch \in Dests \cup {WebDest} |-> {}]
    /\ DigestAtRest(0)
    /\ votes = [k \in VoteKeys |-> 0]
    /\ live = {}
    /\ webCast = [i \in Ids |-> [up |-> 0, down |-> 0]]
    /\ opsLeft = 0
    /\ lastSub = NoRequest
    /\ st = [w \in Storers |-> IdleStore]
    /\ summarizer = "none"
    /\ bs = [b \in Batches |-> IdleBatch]
    /\ digestCfg = [c \in Configs |-> [keywords |-> {}, last_sent |-> NoTime]]
    /\ ms = IdleMail
    /\ mailed = [c \in Configs |-> [ok |-> 0, failed |-> 0]]
    /\ sch = NoSched
    /\ call \in {[fn |-> "parse_response", xml_content |-> d, done |-> FALSE,
                   out |-> [raised |-> FALSE, papers |-> <<>>]] : d \in Documents}

SpecParse == InitParse /\ [][ParseNext]_vars

-----------------------------------------------------------------------------
(* Scheduler: bot/scheduler.py *)

\* The wall clock counts units; a day has DayLen of them and a month
\* MonthDays days.
DayLen == 3
MonthDays == 2
\* start, stop and reschedule calls of one behaviour.
MaxSchedOps == 3
\* The clock stops at the end of the first day of the second month.
SchedHorizon == MonthDays * DayLen + DayLen - 1

Times == 0 .. DayLen - 1

\* now.time(), now.day and the midnight of now.date().
TimeOfDay(t) == t % DayLen
DayOfMonth(t) == ((t \div DayLen) % MonthDays) + 1
Midnight(t) == t - TimeOfDay(t)

\* before_daily_digest, scheduler.py:58-78: the target is today's
\* schedule_time, or, when that has passed, the same datetime with
\* day = day + 1, which datetime.replace refuses (ValueError) when the
\* month has no such day.
before_daily_digest(t, schedule_time) ==
    LET today == Midnight(t) + schedule_time
    IN  IF TimeOfDay(t) >= schedule_time
        THEN IF DayOfMonth(t) + 1 > MonthDays
             THEN [raised |-> TRUE, target |-> 0, wait |-> 0]
             ELSE [raised |-> FALSE, target |-> today + DayLen,
                   wait |-> today + DayLen - t]
        ELSE [raised |-> FALSE, target |-> today, wait |-> today - t]

\* tasks.Loop.is_running(): the loop's asyncio task exists and is not done.
\* A task whose cancellation was requested is not done until the event loop
\* has delivered the CancelledError.
is_running(loops, l) == loops[l].pc \in {"before", "waiting", "body", "sleeping"}

Created(s) == {l \in Loops : s.loops[l].pc # "unborn"}

\* A mutation: start creates a loop whatever the state of the current one.
start_unguarded(s) ==
    LET l == Cardinality(Created(s)) + 1
    IN  [s EXCEPT !.task = l, !.loops[l] = [Unborn EXCEPT !.pc = "before"]]

\* Scheduler.start, scheduler.py:31-36.
start(s) ==
    IF s.task = 0 \/ ~is_running(s.loops, s.task)
    THEN LET l == Cardinality(Created(s)) + 1
         IN  [s EXCEPT !.task = l, !.loops[l] = [Unborn EXCEPT !.pc = "before"]]
    ELSE s

\* Scheduler.stop, scheduler.py:38-42: Loop.cancel() requests the
\* cancellation of the loop's task.
stop(s) ==
    IF s.task # 0 /\ is_running(s.loops, s.task)
    THEN [s EXCEPT !.loops[s.task].cancelling = TRUE]
    ELSE s

\* Scheduler.reschedule, scheduler.py:82-92.
reschedule(s, new_time) == start([stop(s) EXCEPT !.schedule_time = new_time])

\* The scheduler runs a loop that nobody has asked to cancel.
SchedulerRunning(s) == s.task # 0 /\ is_running(s.loops, s.task) /\ ~s.loops[s.task].cancelling

Op(s, name, was) == [s EXCEPT !.opsLeft = @ - 1, !.lastOp = name, !.wasRunning = was]

SchedStart ==
    /\ sch.opsLeft > 0
    /\ Cardinality(Created(sch)) < MaxLoops
    /\ sch' = Op(start(sch), "start", SchedulerRunning(sch))
    /\ UNCHANGED <<fvars, upstream, utcnow, watermark, subs, posted, papersTbl, sent, dt, wt,
                   cyclesLeft, lastRun, rows, votes, live, webCast, opsLeft, lastSub, st,
                   summarizer, bs, digestCfg, ms, mailed, call>>

SchedStop ==
    /\ sch.opsLeft > 0
    /\ sch' = Op(stop(sch), "stop", SchedulerRunning(sch))
    /\ UNCHANGED <<fvars, upstream, utcnow, watermark, subs, posted, papersTbl, sent, dt, wt,
                   cyclesLeft, lastRun, rows, votes, live, webCast, opsLeft, lastSub, st,
                   summarizer, bs, digestCfg, ms, mailed, call>>

SchedReschedule(new_time) ==
    /\ sch.opsLeft > 0
    /\ Cardinality(Created(sch)) < MaxLoops
    /\ sch' = Op(reschedule(sch, new_time), "reschedule", SchedulerRunning(sch))
    /\ UNCHANGED <<fvars, upstream, utcnow, watermark, subs, posted, papersTbl, sent, dt, wt,
                   cyclesLeft, lastRun, rows, votes, live, webCast, opsLeft, lastSub, st,
                   summarizer, bs, digestCfg, ms, mailed, call>>

\* The loop's task runs before_daily_digest up to its sleep; an exception
\* there ends the task.
LoopBefore(l) ==
    /\ sch.loops[l].pc = "before"
    /\ ~sch.loops[l].cancelling
    /\ LET r == before_daily_digest(sch.now, sch.schedule_time)
       IN  sch' = [sch EXCEPT !.loops[l] =
                       [@ EXCEPT !.pc = IF r.raised THEN "failed" ELSE "waiting",
                                 !.time = sch.schedule_time, !.at = sch.now,
                                 !.wait = r.wait, !.target = r.target]]
    /\ UNCHANGED <<fvars, upstream, utcnow, watermark, subs, posted, papersTbl, sent, dt, wt,
                   cyclesLeft, lastRun, rows, votes, live, webCast, opsLeft, lastSub, st,
                   summarizer, bs, digestCfg, ms, mailed, call>>

\* The sleep of before_daily_digest, or the 24 hours between two
\* iterations, is over: daily_digest starts.
LoopWake(l) ==
    /\ sch.loops[l].pc \in {"waiting", "sleeping"}
    /\ ~sch.loops[l].cancelling
    /\ sch.now >= sch.loops[l].target
    /\ sch' = [sch EXCEPT !.loops[l].pc = "body"]
    /\ UNCHANGED <<fvars, upstream, utcnow, watermark, subs, posted, papersTbl, sent, dt, wt,
                   cyclesLeft, lastRun, rows, votes, live, webCast, opsLeft, lastSub, st,
                   summarizer, bs, digestCfg, ms, mailed, call>>

\* daily_digest returns (scheduler.py:47-56 catches what the digest raises);
\* tasks.loop(hours=24) sleeps until the next iteration is due.
LoopBodyDone(l) ==
    /\ sch.loops[l].pc = "body"
    /\ ~sch.loops[l].cancelling
    /\ sch' = [sch EXCEPT !.loops[l].pc = "sleeping",
                          !.loops[l].runs = @ + 1,
                          !.loops[l].target = @ + DayLen]
    /\ UNCHANGED <<fvars, upstream, utcnow, watermark, subs, posted, papersTbl, sent, dt, wt,
                   cyclesLeft, lastRun, rows, votes, live, webCast, opsLeft, lastSub, st,
                   summarizer, bs, digestCfg, ms, mailed, call>>

\* The event loop delivers the requested cancellation: the task is done.
CancelTakesEffect(l) ==
    /\ is_running(sch.loops, l)
    /\ sch.loops[l].cancelling
    /\ sch' = [sch EXCEPT !.loops[l].pc = "cancelled"]
    /\ UNCHANGED <<fvars, upstream, utcnow, watermark, subs, posted, papersTbl, sent, dt, wt,
                   cyclesLeft, lastRun, rows, votes, live, webCast, opsLeft, lastSub, st,
                   summarizer, bs, digestCfg, ms, mailed, call>>

\* The wall clock advances, unless a sleeping loop is due.
SchedTick ==
    /\ sch.now < SchedHorizon
    /\ \A l \in Loops : ~(/\ sch.loops[l].pc \in {"waiting", "sleeping"}
                           /\ ~sch.loops[l].cancelling
                           /\ sch.now >= sch.loops[l].target)
    /\ sch' = [sch EXCEPT !.now = @ + 1]
    /\ UNCHANGED <<fvars, upstream, utcnow, watermark, subs, posted, papersTbl, sent, dt, wt,
                   cyclesLeft, lastRun, rows, votes, live, webCast, opsLeft, lastSub, st,
                   summarizer, bs, digestCfg, ms, mailed, call>>

SchedNext ==
    \/ SchedStart
    \/ SchedStop
    \/ \E new_time \in Times : SchedReschedule(new_time)
    \/ \E l \in Loops : LoopBefore(l)
    \/ \E l \in Loops : LoopWake(l)
    \/ \E l \in Loops : LoopBodyDone(l)
    \/ \E l \in Loops : CancelTakesEffect(l)
    \/ SchedTick

InitSched ==
    /\ now = 0
    /\ lastReq = NoTime
    /\ env = [outcomes |-> {}, horizon |-> 0, delay |-> 0, sinces |-> {}]
    /\ ft = [t \in Tasks |-> IdleTask(0)]
    /\ upstream = EmptyUpstream
    /\ watermark = NoTime
    /\ subs = [ch \in Dests \cup {WebDest} |-> {}]
    /\ DigestAtRest(0)
    /\ votes = [k \in VoteKeys |-> 0]
    /\ live = {}
    /\ webCast = [i \in Ids |-> [up |-> 0, down |-> 0]]
    /\ opsLeft = 0
    /\ lastSub = NoRequest
    /\ st = [w \in Storers |-> IdleStore]
    /\ summarizer = "none"
    /\ bs = [b \in Batches |-> IdleBatch]
    /\ digestCfg = [c \in Configs |-> [keywords |-> {}, last_sent |-> NoTime]]
    /\ ms = IdleMail
    /\ mailed = [c \in Configs |-> [ok |-> 0, failed |-> 0]]
    /\ call = NoCall
    /\ sch \in {[NewScheduler(schedule_time) EXCEPT !.opsLeft = MaxSchedOps] :
                    schedule_time \in Times}

SpecSched == InitSched /\ [][SchedNext]_vars

-----------------------------------------------------------------------------
(* Properties of the upstream client *)

Last(s) == s[Len(s)]

\* The entries of stream that pass the date filter and are the first such
\* entry of their id, in stream order.
RECURSIVE FirstRetained(_, _, _)
FirstRetained(stream, since, i) ==
    IF i > Len(stream) THEN <<>>
    ELSE LET first == /\ KeepByDate(stream[i], since)
                      /\ \A j \in 1 .. i - 1 :
                            ~(stream[j].id = stream[i].id /\ KeepByDate(stream[j], since))
         IN  (IF first THEN <<stream[i]>> ELSE <<>>) \o FirstRetained(stream, since, i + 1)

\* C2: the list fetch_papers builds and returns never holds two entries with
\* the same id, and the returned list is exactly the entries that are the
\* first retained occurrence of their id, in the order they were received.
C2_MergedIdsUnique ==
    \A t \in Tasks :
        ft[t].kind = "fetch_papers" =>
            /\ \A i, j \in 1 .. Len(ft[t].all_papers) :
                   ft[t].all_papers[i].id = ft[t].all_papers[j].id => i = j
            /\ ft[t].pc = "done" =>
                   ft[t].result = FirstRetained(ft[t].stream, ft[t].since, 1)

\* A finished fetch_papers call that met the same id three times, twice in a
\* retained entry, and returned it once.
C2_Witness ==
    \E t \in Tasks :
        /\ ft[t].kind = "fetch_papers" /\ ft[t].pc = "done"
        /\ ft[t].catLog = <<<<"cs.LG", "ok">>, <<"cs.LG", "ok">>>>
        /\ Len(ft[t].stream) = 4
        /\ ft[t].result = <<Paper(2, BadDate), Paper(1, 2)>>

\* C4: a fetch_papers call in which some category raised does not raise, and
\* its result holds the id of every entry, recent enough, of each category
\* whose fetch succeeded, wherever that category stands in the list.
C4_CategoryFailureIsolated ==
    \A t \in Tasks :
        /\ ft[t].pc # "raised"
        /\ (ft[t].kind = "fetch_papers" /\ ft[t].pc = "done") =>
              \A a, b \in 1 .. Len(ft[t].catLog) :
                  (ft[t].catLog[a][2] = "raised" /\ ft[t].catLog[b][2] = "ok") =>
                      \A i \in 1 .. Len(upstream[ft[t].catLog[b][1]]) :
                          LET paper == upstream[ft[t].catLog[b][1]][i]
                          IN  KeepByDate(paper, ft[t].since) => paper.id \in IdsOf(ft[t].result)

\* The first category raised, the second succeeded and its entry is returned.
C4_Witness ==
    \E t \in Tasks :
        /\ ft[t].kind = "fetch_papers" /\ ft[t].pc = "done"
        /\ ft[t].catLog = <<<<"cs.AI", "raised">>, <<"cs.LG", "ok">>>>
        /\ ft[t].result = <<Paper(1, 2)>>

\* C5: any two requests of the shared instance, issued by different tasks,
\* start at least rate_limit_seconds apart.
C5_ConcurrentSpacing ==
    \A t, u \in Tasks :
        (t # u /\ ft[t].reqStart # NoTime /\ ft[u].reqStart # NoTime) =>
            \/ ft[t].reqStart - ft[u].reqStart >= RateLimitSeconds
            \/ ft[u].reqStart - ft[t].reqStart >= RateLimitSeconds

\* C6: when a task issues a request, its own previous request started at
\* least rate_limit_seconds earlier.
C6_TaskSpacing ==
    [][\A t \in Tasks :
          (ft[t].pc # "inflight" /\ ft'[t].pc = "inflight" /\ ft[t].reqStart # NoTime) =>
              ft'[t].reqStart - ft[t].reqStart >= RateLimitSeconds]_vars

\* A task's second call has its request on the wire, after a first call that
\* also issued one.
C6_Witness ==
    \E t \in Tasks :
        /\ ft[t].pc = "inflight" /\ ft[t].callsLeft = 0 /\ MaxCalls > 1
        /\ ft[t].kind = "all" /\ ft[t].reqStart >= RateLimitSeconds

InLoop(f) == f.pc \in {"rate", "rate_sleep", "inflight", "backoff"}

\* What is left of the retry loop: the iterations not yet begun, and how far
\* the current one is.
LoopMeasure(f) ==
    IF ~InLoop(f) THEN 0
    ELSE 4 * (Retries - 1 - f.attempt) + 1 +
         (CASE f.pc = "rate" -> 3 [] f.pc = "rate_sleep" -> 2
            [] f.pc = "inflight" -> 1 [] OTHER -> 0)

C7_Bounded ==
    \A t \in Tasks :
        LET f == ft[t] IN
        /\ Len(f.outcomes) <= Retries
        /\ f.attempt < Retries
        /\ f.pc = "inflight" => Len(f.outcomes) < Retries
        /\ \A i \in 1 .. Len(f.outcomes) :
              f.outcomes[i] = "s200" =>
                  i = Len(f.outcomes) /\ f.pc = "returned" /\ f.rret = "body"
        /\ (f.pc = "returned" /\ f.rret = "body") =>
              (f.outcomes # <<>> /\ Last(f.outcomes) = "s200")
        /\ (Len(f.outcomes) = Retries /\ Last(f.outcomes) \notin {"s200", "exc"}) =>
              \/ f.pc = "backoff"
              \/ f.pc = "returned" /\ f.rret = "none"

\* C7: one _request_with_retry call makes at most `retries` attempts, every
\* step of it brings the end of the loop nearer, a 200 is the last attempt
\* and its body is returned, and after `retries` failures None is returned.
C7_RetryTerminates ==
    /\ []C7_Bounded
    /\ [][\A t \in Tasks :
            (InLoop(ft[t]) /\ ft'[t] # ft[t]) => LoopMeasure(ft'[t]) < LoopMeasure(ft[t])]_vars

\* The third attempt succeeded after a 503 and a timeout.
C7_Witness ==
    \E t \in Tasks :
        /\ ft[t].pc = "returned" /\ ft[t].rret = "body"
        /\ ft[t].outcomes = <<"s503", "timeout", "s200">>

\* C8: after an attempt that got a 4xx status other than 429 the call has
\* returned None, with no backoff wait and no further attempt.
C8_NonRetryableFailsAtOnce ==
    \A t \in Tasks :
        (ft[t].outcomes # <<>> /\ Last(ft[t].outcomes) = "s404") =>
            ft[t].pc = "returned" /\ ft[t].rret = "none" /\ ~ft[t].waited

\* A 404 on the second attempt.
C8_Witness ==
    \E t \in Tasks :
        /\ ft[t].outcomes = <<"timeout", "s404">>
        /\ ft[t].pc = "returned" /\ ft[t].rret = "none"

\* C9: after a timeout, a throttling response (429) or a 5xx status, with
\* attempts left, the call goes on to another attempt instead of returning.
C9_TransientRetried ==
    \A t \in Tasks :
        (/\ ft[t].outcomes # <<>>
         /\ Last(ft[t].outcomes) \in {"timeout", "s429", "s500", "s503"}
         /\ Len(ft[t].outcomes) < Retries) =>
            ft[t].pc \in {"backoff", "rate", "rate_sleep"}

-----------------------------------------------------------------------------
(* Properties of the digest cycle *)

BeforeLoopStep(t) ==
    \/ ~Running(dt[t]) /\ dt'[t] # dt[t]
    \/ dt[t].pc = "fetching" /\ dt'[t].pc # "fetching"

-----------------------------------------------------------------------------
(* Properties of the votes *)

Once(n) == IF n > 0 THEN 1 ELSE 0

\* C15: a vote recorded twice for the same item, voter and kind counts once:
\* the votes table holds at most one row per item, voter and kind, and the
\* score of an item voted on through the web page, whose one user is the
\* voter, is 1 for any number of up votes minus 1 for any number of down
\* votes.
C15_SameVoteCountsOnce ==
    /\ \A k \in VoteKeys : votes[k] <= 1
    /\ \A id \in papersTbl :
           GetPaperScore(id) = Once(webCast[id].up) - Once(webCast[id].down)

\* The voters whose reaction of a kind on an item stands.
Standing(id, kind) == {u \in Voters : <<id, u, kind>> \in live}

-----------------------------------------------------------------------------
(* Properties of the subscriptions *)

\* A keyword lowercased and trimmed.
Normalized(raw) == Lower(Strip(raw))

\* C17: every add_subscription and remove_subscription call leaves the
\* destination's stored keywords equal to the set insert or set delete of the
\* normalized keyword, returns TRUE exactly when that changed the set, leaves
\* every other destination's keywords as they were, and no destination holds
\* two keywords with the same normalized form; a request that makes no call
\* changes nothing.
C17_SubscriptionsAreSets ==
    [][(opsLeft' # opsLeft /\ lastSub'.op # "none") =>
          LET c == lastSub'
              before == GetChannelSubscriptions(c.ch)
              expect == IF c.op = "add" THEN before \cup {Normalized(c.raw)}
                                        ELSE before \ {Normalized(c.raw)}
          IN  /\ c.called => /\ subs'[c.ch] = expect
                             /\ c.ret = (expect # before)
              /\ ~c.called => subs' = subs
              /\ \A other \in (Dests \cup {WebDest}) \ {c.ch} : subs'[other] = subs[other]
              /\ \A ch \in Dests \cup {WebDest} : \A k1, k2 \in subs'[ch] :
                     Normalized(k1) = Normalized(k2) => k1 = k2]_vars

\* "a" was added to chA and is stored once, adding "A " to chA then returned
\* FALSE, and chB holds "b".
C17_Witness ==
    /\ subs["chA"] = {<<"a">>}
    /\ subs["chB"] = {<<"b">>}
    /\ lastSub = [op |-> "add", ch |-> "chA", raw |-> <<"A", " ">>, called |-> TRUE,
                  ret |-> FALSE]

-----------------------------------------------------------------------------
(* Properties of the stored items *)

\* C18: no step removes the row of a stored item or changes its summary or
\* its matched keywords, whether the step is a store of the same id by this
\* or another request or anything else, and its score changes only in a
\* step that applies a vote to it; the table holds one row per id.
C18_StoredRowKept ==
    [][\A id \in papersTbl :
          /\ id \in papersTbl'
          /\ rows'[id].summary = rows[id].summary
          /\ rows'[id].matched = rows[id].matched
          /\ rows'[id].score # rows[id].score => webCast'[id] # webCast[id]]_vars

\* Two requests both found item 1 absent and both stored it with different
\* attributes; the row holds the attributes of one of them, and a vote has
\* raised its score.
C18_Witness ==
    /\ \A w \in Storers : st[w].pc = "idle" /\ st[w].wrote /\ st[w].id = 1
    /\ st["w1"].row.summary = "tldr"
    /\ st["w2"].row.summary = ""
    /\ 1 \in papersTbl
    /\ rows[1].summary = "tldr"
    /\ rows[1].score = 1

-----------------------------------------------------------------------------
(* Properties of the recording of a delivery *)

-----------------------------------------------------------------------------
(* Properties of batch_summarize *)

\* C20: a batch never has more than MaxConcurrent summarization calls in
\* flight, and a call is started only while fewer than MaxConcurrent calls
\* of its batch are in flight, so a call beyond the limit starts after a
\* running call has returned.
C20_CallsInFlightBounded ==
    [][\A b \in Batches :
          /\ bs'[b].inflight <= MaxConcurrent
          /\ bs'[b].inflight > bs[b].inflight => bs[b].inflight < MaxConcurrent]_vars

\* A batch of more items than the limit has its sixth call in flight, the
\* five before it having returned.
C20_Witness ==
    \E b \in Batches :
        /\ bs[b].n > MaxConcurrent
        /\ bs[b].idx = MaxConcurrent
        /\ bs[b].inflight = 1

-----------------------------------------------------------------------------
(* Properties of the email digests *)

\* C21: the last_sent of a digest configuration changes only in the step
\* that follows a successful send for that configuration, and then becomes
\* the current time; a fetch that yields no papers, a filter that matches
\* none and a failed send leave every last_sent as it was.
C21_LastSentOnlyAfterSend ==
    [][/\ \A c \in Configs :
             digestCfg'[c].last_sent # digestCfg[c].last_sent =>
                 /\ ms.config = c
                 /\ ms.delivered
                 /\ mailed[c].ok >= 1
                 /\ digestCfg'[c].last_sent = utcnow
       /\ (ms.pc \in {"fetching", "sending"} /\ ms'.pc = "idle") => digestCfg' = digestCfg]_vars

\* Configuration 1 was sent and carries its last_sent; the send for
\* configuration 2 failed and it was never sent.
C21_Witness ==
    /\ mailed[1].ok = 1
    /\ digestCfg[1].last_sent # NoTime
    /\ mailed[2] = [ok |-> 0, failed |-> 1]
    /\ digestCfg[2].last_sent = NoTime
    /\ ms.pc = "idle"

-----------------------------------------------------------------------------
(* Properties of the keyword filter *)

\* The keyword occurs in the text with no letter right before it and none
\* right after it.
WholeWordIn(text, keyword) ==
    \E i \in Occurrences(text, keyword) :
        ~IsWordAt(text, i - 1) /\ ~IsWordAt(text, i + Len(keyword))

\* C22: with fuzzy a keyword that is not blank matches only where it occurs
\* in the lowercased, trimmed text as a whole word, with no letter next to it
\* on either side; without fuzzy it matches exactly when it occurs in that
\* text.
C22_FuzzyMatchesWholeWords ==
    (call.fn = "matches_keyword" /\ call.done) =>
        LET t == Strip(Lower(call.text))
            k == Strip(Lower(call.keyword))
        IN  /\ (call.fuzzy /\ call.out /\ k # <<>>) => WholeWordIn(t, k)
            /\ ~call.fuzzy => (call.out <=> Occurrences(t, k) # {})

\* The supplied keyword strings that match the paper when case is ignored.
MatchingKeywords(paper, keywords, fuzzy) ==
    {k \in {keywords[i] : i \in 1 .. Len(keywords)} :
        matches_keyword(Lower(SearchableText(paper)), Lower(k), fuzzy)}

\* The papers, in input order, that some keyword matches.
RECURSIVE MatchingPapers(_, _, _)
MatchingPapers(papers, keywords, fuzzy) ==
    IF papers = <<>> THEN <<>>
    ELSE (IF MatchingKeywords(Head(papers), keywords, fuzzy) # {}
          THEN <<Head(papers)>> ELSE <<>>)
         \o MatchingPapers(Tail(papers), keywords, fuzzy)

\* C23: filter_papers_by_keywords returns, in input order, the papers that
\* some keyword matches and no other, each with the set of the supplied
\* keyword strings that match it when case is ignored, the strings kept as
\* they were supplied.
C23_FilterKeepsMatchingPapers ==
    (call.fn = "filter_papers_by_keywords" /\ call.done) =>
        LET expected == MatchingPapers(call.papers, call.keywords, call.fuzzy)
        IN  /\ Len(call.out) = Len(expected)
            /\ \A i \in 1 .. Len(call.out) :
                   /\ call.out[i][1] = expected[i]
                   /\ call.out[i][2] # {}
                   /\ call.out[i][2] =
                          MatchingKeywords(expected[i], call.keywords, call.fuzzy)

\* Of two papers the first matches "A" and "a", supplied as two keywords,
\* and the second matches neither: the result is the first paper with both.
C23_Witness ==
    /\ call.fn = "filter_papers_by_keywords"
    /\ call.done
    /\ Len(call.papers) = 2
    /\ call.keywords = << <<"A">>, <<"a">> >>
    /\ Len(call.out) = 1
    /\ call.out[1][1] = call.papers[1]
    /\ call.out[1][2] = {<<"A">>, <<"a">>}

-----------------------------------------------------------------------------
(* Properties of the parser *)

\* An entry whose parsing fails: an element that must carry text has none.
Unparsable(entry) == NoText \in {entry.id, entry.title, entry.summary}

\* The positions of the parsable entries of a document, in order.
RECURSIVE ParsablePositions(_, _)
ParsablePositions(doc, i) ==
    IF i > Len(doc) THEN <<>>
    ELSE (IF Unparsable(doc[i]) THEN <<>> ELSE <<i>>) \o ParsablePositions(doc, i + 1)

\* C24: parse_response does not raise; a document that does not parse gives
\* the empty list; in a document that parses, each entry whose parsing does
\* not fail gives one record and each other entry none, in document order,
\* and a record carries the part of its entry's id after /abs/, the entry's
\* authors and its categories.
C24_ParseSkipsBadEntries ==
    (call.fn = "parse_response" /\ call.done) =>
        /\ ~call.out.raised
        /\ call.xml_content = Malformed => call.out.papers = <<>>
        /\ call.xml_content # Malformed =>
               LET doc == call.xml_content.entries
                   keep == ParsablePositions(doc, 1)
               IN  /\ Len(call.out.papers) = Len(keep)
                   /\ \A j \in 1 .. Len(keep) :
                          LET paper == call.out.papers[j]
                              entry == doc[keep[j]]
                          IN  /\ paper.authors = entry.authors
                              /\ paper.categories = entry.categories
                              /\ entry.id \in IdUrls =>
                                     /\ paper.url = entry.id
                                     /\ "/abs/" \in {entry.id[i] : i \in 1 .. Len(entry.id)}
                                            => paper.id = <<entry.id[Len(entry.id)]>>

\* A document whose first entry fails to parse and whose second is the
\* entry of the test: one record, with id 2301.00001v1, two authors and cs.LG.
C24_Witness ==
    /\ call.fn = "parse_response"
    /\ call.done
    /\ call.xml_content # Malformed
    /\ Len(call.xml_content.entries) = 2
    /\ call.xml_content.entries[1].title = NoText
    /\ Len(call.out.papers) = 1
    /\ call.out.papers[1].id = <<"2301.00001v1">>
    /\ Len(call.out.papers[1].authors) = 2
    /\ call.out.papers[1].categories = <<"cs.LG">>

-----------------------------------------------------------------------------
(* Properties of the watermark within a cycle *)

\* Cycle t takes a step of its loop or of the code before it.
CycleStep(t) ==
    /\ dt[t].pc \in {"fetching", "check", "summarize", "send", "react"}
    /\ dt'[t].pc # dt[t].pc \/ dt'[t].idx # dt[t].idx

-----------------------------------------------------------------------------
(* Properties of the date window *)

\* The published date of the entry parses and lies before since.
TooOld(paper, since) == paper.pub \notin {NoTime, BadDate} /\ paper.pub < since

-----------------------------------------------------------------------------
(* Properties of the scheduler *)

RunningLoops == {l \in Loops : is_running(sch.loops, l)}
\* A cancellation was requested and has not been delivered yet.
CancelPending == \E l \in Loops : is_running(sch.loops, l) /\ sch.loops[l].cancelling

\* C28: after any sequence of start, stop and reschedule calls at most one
\* digest loop task is running, and when the last call was stop and no
\* cancellation is pending any more, no loop is running.
C28_AtMostOneLoop ==
    /\ Cardinality(RunningLoops) <= 1
    /\ (sch.lastOp = "stop" /\ ~CancelPending) => RunningLoops = {}

\* C28, the start half: a start call made while a loop is running creates
\* no loop.
C28_StartWhileRunningCreatesNone ==
    [][(sch'.lastOp = "start" /\ sch'.opsLeft < sch.opsLeft
            /\ sch.task # 0 /\ is_running(sch.loops, sch.task))
        => sch'.loops = sch.loops /\ sch'.task = sch.task]_vars

\* start was called while the loop was waiting for its first run, and the
\* one loop stayed; later stop was called and the loop is gone.
C28_Witness ==
    /\ sch.lastOp = "stop" /\ sch.wasRunning /\ ~CancelPending
    /\ sch.opsLeft = MaxSchedOps - 3
    /\ Cardinality(Created(sch)) = 1
    /\ sch.loops[1].pc = "cancelled"

\* C29: when the last call was reschedule(new_time) on a running
\* scheduler, no cancellation is pending any more and no loop has died in
\* before_daily_digest, exactly one loop is running, it is the scheduler's
\* loop, and what it computed its wait from is new_time.
C29_RescheduleLeavesOneLoop ==
    (/\ sch.lastOp = "reschedule" /\ sch.wasRunning
     /\ ~CancelPending
     /\ \A l \in Loops : sch.loops[l].pc # "failed")
    => /\ RunningLoops = {sch.task}
       /\ sch.loops[sch.task].pc # "before" =>
              sch.loops[sch.task].time = sch.schedule_time

\* The first occurrence of schedule_time after t.
NextOccurrence(t, schedule_time) ==
    IF TimeOfDay(t) < schedule_time THEN Midnight(t) + schedule_time
                                    ELSE Midnight(t) + DayLen + schedule_time

\* C30: every loop that has run before_daily_digest, at whatever date and
\* time of day and for whatever schedule_time, got a wait from it (nothing
\* was raised), greater than 0 and at most a day, ending at the next
\* occurrence of schedule_time.
C30_WaitEndsAtNextOccurrence ==
    \A l \in Loops :
        sch.loops[l].pc \notin {"unborn", "before"} /\ sch.loops[l].runs = 0
            /\ ~(sch.loops[l].pc = "cancelled" /\ sch.loops[l].wait = 0) =>
            /\ sch.loops[l].pc # "failed"
            /\ sch.loops[l].wait > 0
            /\ sch.loops[l].wait <= DayLen
            /\ sch.loops[l].at + sch.loops[l].wait
                   = NextOccurrence(sch.loops[l].at, sch.loops[l].time)

=============================================================================
